---- MODULE Spec2Model ----
(***************************************************************************)
(* The donation saga of bugs-api-avengers:                                 *)
(*   donation-service  POST /api/donate   (idempotency cache, publish)     *)
(*   payment-service   processDonation    (balance check, debit, publish)  *)
(*   payment-service   processLoginEvent  (account of a registered user)   *)
(*   campaign-service  updateCampaignTotal (ledger increment, cache del)   *)
(*   campaign-service  GET /api/campaigns[/:id] (read-through redis cache) *)
(*   startup of the three consumers (topics, connect, subscribe retries)   *)
(*   donation-service  crash of the process, sweep of the idempotency cache*)
(*   the five consumers at work (eachMessage) and at shutdown (signals)    *)
(*   backend           POST /api/register, login, refresh, logout, profile *)
(* Amounts are whole currency units.                                       *)
(***************************************************************************)
EXTENDS Integers, Sequences, FiniteSets, TLC

\* ------------------------------------------------------------------ bounds
MaxSubmissions == 3
MaxIncidents == 1
MaxDonations == 2
MaxPayments == 2
MaxRetries == 5
MaxResubmissions == 2

\* ------------------------------------------------------------------ inputs
NoKey == "nokey"
Keys == {"k1", "k2"}
NoCampaign == 0
Campaigns == {1, 2}
UnknownCampaign == 9
Users == {"u1", "u2"}
Workers == {"w1", "w2"}

\* body.amount that is a string without a leading number, such as "abc"
NotNumeric == 0 - 98
\* the number NaN
NaN == 0 - 99

\* The request inputs enumerated: (Idempotency-Key header, body.campaignId,
\* body.amount, req.user.userId).  A missing header is NoKey, a missing
\* campaignId is NoCampaign and a missing amount is 0 (all three are falsy in
\* the code).  u1 has an account, u2 has none.
RequestInputs ==
  { <<"k1", 1, 10, "u1">>, <<"k1", 2, 60, "u1">>, <<"k2", 1, NotNumeric, "u1">>,
    <<NoKey, 1, 10, "u1">>, <<"k1", NoCampaign, 10, "u1">>, <<"k1", 1, 0, "u1">> }

StartBalances == {10, 100}

\* The donation events enumerated for the payment service alone:
\* (idempotencyKey, campaignId, amount, userId).
DonationInputs ==
  { <<"k1", 1, 10, "u1">>, <<"k1", 1, 60, "u1">>, <<"k2", 1, 60, "u1">>,
    <<"k2", 2, 10, "u2">> }

VARIABLES
  idempotencyCache,  \* donation-service: Map idempotencyKey -> response
  reqs,              \* donation-service: the POST /api/donate handlers, in arrival order
  nextDonation,      \* donation-service: source of fresh donation ids
  donationTopic,     \* broker: the 'donation' topic
  dDeliveries,       \* broker: deliveries of each donation message so far
  accounts,          \* payment-service: users that have an account row
  balance,           \* payment-service: balance column of each account
  pw,                \* payment-service: the processDonation run of each worker
  handled,           \* payment-service: finished processDonation runs (history)
  paymentTopic,      \* broker: the messages of the 'payment' topic (3 partitions: no order)
  pDeliveries,       \* broker: deliveries of each payment message so far
  total,             \* campaign-service: total_amount_raised of each campaign
  cache,             \* campaign-service: redis keys present
  ag,                \* campaign-service: the eachMessage run in progress
  aggHandled,        \* campaign-service: finished eachMessage runs (history)
  faults,            \* number of injected broker/storage errors so far
  redeliveries,      \* number of broker redeliveries so far
  startBalance,      \* balance of u1 at the start (history)
  rd,                \* campaign-service: the GET handler run of each reader
  boot,              \* the startup of each consumer: position and retry attempt
  proc,              \* the process of each consuming service
  topics,            \* broker: the topics that exist
  users,             \* backend: the emails of the users table
  isConnected,       \* backend producer: producer.connect() has resolved
  topicEnsured,      \* backend producer: ensureTopicExists has succeeded
  reg,               \* backend: the POST /api/register handler
  loginTopic,        \* broker: the users published on the 'Login' topic
  issued,            \* backend: the tokens signed so far
  tokenBlacklist,    \* backend: Set of the tokens of the logouts
  revoked,           \* the tokens presented to successful logouts (history)
  clock,             \* backend: the time
  resp,              \* backend: the last response to /api/login, refresh, logout, profile
  inbox,             \* broker: the messages every consumer is given, in order
  life,              \* the eachMessage run of each consumer
  sig,               \* the signal each process has received
  pending,           \* the signal handlers of each process that have not finished
  now,               \* donation-service: the time, in hours
  stamp,             \* donation-service: timestamp of each entry of idempotencyCache
  swept,             \* donation-service: the time of the last sweep
  startedAt          \* donation-service: the requests received before the last start

\* A run of the model injects at most MaxIncidents errors and redeliveries.
CanFail == faults + redeliveries < MaxIncidents
CanRedeliver == faults + redeliveries < MaxIncidents

intakeVars == <<idempotencyCache, reqs, nextDonation, donationTopic, dDeliveries>>
payVars == <<accounts, balance, pw, handled, paymentTopic, pDeliveries>>
aggVars == <<total, cache, ag, aggHandled>>
envVars == <<faults, redeliveries, startBalance>>
readVars == <<rd>>
bootVars == <<boot, proc, topics>>
storeVars == <<now, stamp, swept, startedAt>>
lifeVars == <<inbox, life, sig, pending>>
backVars == <<users, isConnected, topicEnsured, reg, loginTopic, issued,
              tokenBlacklist, revoked, clock, resp>>
vars == <<idempotencyCache, reqs, nextDonation, donationTopic, dDeliveries,
          accounts, balance, pw, handled, paymentTopic, pDeliveries,
          total, cache, ag, aggHandled, faults, redeliveries, startBalance,
          rd, boot, proc, topics, users, isConnected, topicEnsured, reg,
          loginTopic, issued, tokenBlacklist, revoked, clock, resp,
          inbox, life, sig, pending, now, stamp, swept, startedAt>>

\* ------------------------------------------------------- donation-service
NoDonation == [donationId |-> 0, campaignId |-> 0, amount |-> 0]

\* res.status(code).json(body); `replayed` is FALSE when the body has no such field.
Response(status, success, message, donation, replayed) ==
  [status |-> status, success |-> success, message |-> message,
   donation |-> donation, replayed |-> replayed]

NoResponse == Response(0, FALSE, "", NoDonation, FALSE)

\* successResponse of the handler.
SuccessResponse(d) ==
  Response(201, TRUE, "Donation received successfully",
           [donationId |-> d.donationId, campaignId |-> d.campaignId, amount |-> d.amount],
           FALSE)

\* (mutant) the replay returns the cached body as it is
ReplayResponseUnmarked(cached) == cached

\* the body returned on an idempotent replay: {...cachedResponse.response, replayed, message}
ReplayResponse(cached) ==
  [cached EXCEPT !.status = 200, !.replayed = TRUE,
                 !.message = "Donation already processed (duplicate request prevented)"]

NoEntry == NoResponse

\* (mutant) the lookup never finds the key
CacheHitNever(key) == FALSE

\* idempotencyCache.get(key), undefined when absent
CacheHit(key) == key \in Keys /\ idempotencyCache[key] /= NoEntry

Handler(key, campaignId, amount, pc, donationData, response) ==
  [key |-> key, campaignId |-> campaignId, amount |-> amount, pc |-> pc,
   donationData |-> donationData, response |-> response]

NoData == [donationId |-> 0, idempotencyKey |-> NoKey, campaignId |-> 0,
           userId |-> "u1", amount |-> 0]

\* parseFloat(amount)
ParseFloat(x) == IF x = NotNumeric THEN NaN ELSE x

\* !amount: the amount is missing or 0
Falsy(x) == x = 0

\* a <= 0, which is false when a is NaN
LeqZero(a) == a /= NaN /\ a <= 0

\* The handler validates campaignId and amount before it looks the key up.
SubmitResultValidateFirst(key, campaignId, amount, user) ==
  IF key = NoKey
    THEN Handler(key, campaignId, amount, "done", NoData,
                 Response(400, FALSE, "Idempotency key required", NoDonation, FALSE))
  ELSE IF campaignId = NoCampaign
    THEN Handler(key, campaignId, amount, "done", NoData,
                 Response(400, FALSE, "Campaign ID is required", NoDonation, FALSE))
  ELSE IF Falsy(amount) \/ LeqZero(ParseFloat(amount))
    THEN Handler(key, campaignId, amount, "done", NoData,
                 Response(400, FALSE, "Invalid amount", NoDonation, FALSE))
  ELSE IF CacheHit(key)
    THEN Handler(key, campaignId, amount, "done", NoData,
                 ReplayResponse(idempotencyCache[key]))
  ELSE Handler(key, campaignId, amount, "publishing",
               [donationId |-> nextDonation, idempotencyKey |-> key,
                campaignId |-> campaignId, userId |-> user,
                amount |-> ParseFloat(amount)],
               NoResponse)

\* The handler up to its first await: validation, replay, or a new donation.
SubmitResult(key, campaignId, amount, user) ==
  IF key = NoKey
    THEN Handler(key, campaignId, amount, "done", NoData,
                 Response(400, FALSE, "Idempotency key required", NoDonation, FALSE))
  ELSE IF CacheHit(key)
    THEN Handler(key, campaignId, amount, "done", NoData,
                 ReplayResponse(idempotencyCache[key]))
  ELSE IF campaignId = NoCampaign
    THEN Handler(key, campaignId, amount, "done", NoData,
                 Response(400, FALSE, "Campaign ID is required", NoDonation, FALSE))
  ELSE IF Falsy(amount) \/ LeqZero(ParseFloat(amount))
    THEN Handler(key, campaignId, amount, "done", NoData,
                 Response(400, FALSE, "Invalid amount", NoDonation, FALSE))
  ELSE Handler(key, campaignId, amount, "publishing",
               [donationId |-> nextDonation, idempotencyKey |-> key,
                campaignId |-> campaignId, userId |-> user,
                amount |-> ParseFloat(amount)],
               NoResponse)

SubmitDonation(key, campaignId, amount, user) ==
  /\ LET h == SubmitResult(key, campaignId, amount, user) IN
       /\ reqs' = Append(reqs, h)
       /\ nextDonation' = IF h.pc = "publishing" THEN nextDonation + 1 ELSE nextDonation
  /\ UNCHANGED <<idempotencyCache, donationTopic, dDeliveries>>
  /\ UNCHANGED <<payVars, aggVars, envVars>>
  /\ UNCHANGED <<readVars, bootVars, backVars, lifeVars, storeVars>>

\* publishDonation of the donation service's producer: the event joins the topic.
PublishedDonation(topic, d) == Append(topic, d)

\* await publishDonation(donationData) resolves: the event is on the topic.
PublishDonationOk(r) ==
  /\ reqs[r].pc = "publishing"
  /\ donationTopic' = PublishedDonation(donationTopic, reqs[r].donationData)
  /\ dDeliveries' = Append(dDeliveries, 0)
  /\ reqs' = [reqs EXCEPT ![r].pc = "published"]
  /\ UNCHANGED <<idempotencyCache, nextDonation>>
  /\ UNCHANGED <<payVars, aggVars, envVars>>
  /\ UNCHANGED <<readVars, bootVars, backVars, lifeVars, storeVars>>

\* The catch answers 500 and stores the answer under the key.
PublishDonationFailStored(r) ==
  /\ reqs[r].pc = "publishing"
  /\ CanFail
  /\ faults' = faults + 1
  /\ reqs' = [reqs EXCEPT ![r].pc = "done",
                          ![r].response = Response(500, FALSE, "Internal server error",
                                                   NoDonation, FALSE)]
  /\ idempotencyCache' = [idempotencyCache EXCEPT ![reqs[r].key] =
                             Response(500, FALSE, "Internal server error",
                                      NoDonation, FALSE)]
  /\ UNCHANGED <<nextDonation, donationTopic, dDeliveries>>
  /\ UNCHANGED <<payVars, aggVars, redeliveries, startBalance>>
  /\ UNCHANGED <<readVars, bootVars, backVars, lifeVars, storeVars>>

\* await publishDonation(donationData) rejects: the catch answers 500.
PublishDonationFail(r) ==
  /\ reqs[r].pc = "publishing"
  /\ CanFail
  /\ faults' = faults + 1
  /\ reqs' = [reqs EXCEPT ![r].pc = "done",
                          ![r].response = Response(500, FALSE, "Internal server error",
                                                   NoDonation, FALSE)]
  /\ UNCHANGED <<idempotencyCache, nextDonation, donationTopic, dDeliveries>>
  /\ UNCHANGED <<payVars, aggVars, redeliveries, startBalance>>
  /\ UNCHANGED <<readVars, bootVars, backVars, lifeVars, storeVars>>

\* idempotencyCache.set(idempotencyKey, {response: successResponse, ...}), then the 2 s timer starts.
CacheResponse(r) ==
  /\ reqs[r].pc = "published"
  /\ idempotencyCache' = [idempotencyCache EXCEPT ![reqs[r].key] =
                             SuccessResponse(reqs[r].donationData)]
  /\ stamp' = [stamp EXCEPT ![reqs[r].key] = now]
  /\ reqs' = [reqs EXCEPT ![r].pc = "delay"]
  /\ UNCHANGED <<nextDonation, donationTopic, dDeliveries, now, swept, startedAt>>
  /\ UNCHANGED <<payVars, aggVars, envVars>>
  /\ UNCHANGED <<readVars, bootVars, backVars, lifeVars>>

\* the timer fires: res.status(201).json(successResponse)
Respond(r) ==
  /\ reqs[r].pc = "delay"
  /\ reqs' = [reqs EXCEPT ![r].pc = "done",
                          ![r].response = SuccessResponse(reqs[r].donationData)]
  /\ UNCHANGED <<idempotencyCache, nextDonation, donationTopic, dDeliveries>>
  /\ UNCHANGED <<payVars, aggVars, envVars>>
  /\ UNCHANGED <<readVars, bootVars, backVars, lifeVars, storeVars>>

\* ------------------------------------ donation-service: crash and sweep
\* Time of the donation service in hours.
IDEMPOTENCY_TTL == 24
Hours == {0, 12, 24, 36}

\* Time passes.
PassTime(t) ==
  /\ t > now
  /\ now' = t
  /\ UNCHANGED <<stamp, swept, startedAt>>
  /\ UNCHANGED <<intakeVars, payVars, aggVars, envVars>>
  /\ UNCHANGED <<readVars, bootVars, backVars, lifeVars>>

\* The sweep deletes the entries that are 24 hours old or older.
StaleOrAtLimit(key) ==
  idempotencyCache[key] /= NoEntry /\ now - stamp[key] >= IDEMPOTENCY_TTL

\* now - value.timestamp > IDEMPOTENCY_TTL
Stale(key) ==
  idempotencyCache[key] /= NoEntry /\ now - stamp[key] > IDEMPOTENCY_TTL

\* The setInterval callback: delete every stale entry of idempotencyCache.
Sweep ==
  /\ swept /= now
  /\ swept' = now
  /\ UNCHANGED startedAt
  /\ idempotencyCache' = [k \in Keys |->
                            IF Stale(k) THEN NoEntry ELSE idempotencyCache[k]]
  /\ stamp' = [k \in Keys |-> IF Stale(k) THEN 0 ELSE stamp[k]]
  /\ UNCHANGED <<now, reqs, nextDonation, donationTopic, dDeliveries>>
  /\ UNCHANGED <<payVars, aggVars, envVars>>
  /\ UNCHANGED <<readVars, bootVars, backVars, lifeVars>>

\* Where a handler was when the process crashed.
LostAt(pc) ==
  IF pc = "publishing" THEN "lost-publishing"
  ELSE IF pc = "published" THEN "lost-published"
  ELSE IF pc = "delay" THEN "lost-delay"
  ELSE pc

\* The handlers a crash of the process leaves behind: the ones in flight never
\* answer.
Crashed(hs) == [r \in 1..Len(hs) |-> [hs[r] EXCEPT !.pc = LostAt(hs[r].pc)]]

\* The store survives the crash and holds the response of every handler that
\* had published.
StoreAfterCrashDurable ==
  [k \in Keys |->
     IF \E r \in 1..Len(reqs) : reqs[r].key = k /\ reqs[r].pc = "published"
       THEN SuccessResponse(
              reqs[CHOOSE r \in 1..Len(reqs) :
                     reqs[r].key = k /\ reqs[r].pc = "published"].donationData)
       ELSE idempotencyCache[k]]

\* idempotencyCache is a Map in the memory of the process: a restart starts
\* with an empty one.
StoreAfterCrash == [k \in Keys |-> NoEntry]

\* The process of the donation service crashes and is started again.
Crash ==
  /\ CanFail
  /\ faults' = faults + 1
  /\ idempotencyCache' = StoreAfterCrash
  /\ stamp' = [k \in Keys |-> 0]
  /\ reqs' = Crashed(reqs)
  /\ startedAt' = Len(reqs)
  /\ UNCHANGED <<now, swept, nextDonation, donationTopic, dDeliveries>>
  /\ UNCHANGED <<payVars, aggVars, redeliveries, startBalance>>
  /\ UNCHANGED <<readVars, bootVars, backVars, lifeVars>>

\* -------------------------------------------------------- payment-service
Absent == 0 - 1

Idle == [pc |-> "idle", msg |-> 0, delivery |-> 0, bal |-> Absent, newBal |-> Absent,
         reason |-> "", debited |-> FALSE]

\* The payload is built without the idempotencyKey of the donation.
PaymentEventKeyless(d, run, status, reason, previousBalance, newBalance, currentBalance) ==
  [run |-> run, donationId |-> d.donationId, userId |-> d.userId, campaignId |-> d.campaignId,
   amount |-> d.amount, status |-> status, reason |-> reason,
   previousBalance |-> previousBalance, newBalance |-> newBalance,
   currentBalance |-> currentBalance, idempotencyKey |-> NoKey]

\* The payload handed to publishPaymentEvent in each branch of processDonation.
\* `run` identifies the message on the topic: the run that produced it (history).
PaymentEvent(d, run, status, reason, previousBalance, newBalance, currentBalance) ==
  [run |-> run, donationId |-> d.donationId, userId |-> d.userId, campaignId |-> d.campaignId,
   amount |-> d.amount, status |-> status, reason |-> reason,
   previousBalance |-> previousBalance, newBalance |-> newBalance,
   currentBalance |-> currentBalance, idempotencyKey |-> d.idempotencyKey]

\* Workers are interchangeable: a message goes to the first idle one.
FirstIdle(w) == pw[w].pc = "idle" /\ (w = "w2" => pw["w1"].pc /= "idle")

\* getUserBalance(userId) of the payment service's ledger: null without an account.
HasAccount(u) == u \in accounts

\* (mutant) no check of balance === null
AfterBalanceReadNoNullCheck(run, d) ==
  IF balance[d.userId] < d.amount
    THEN [run EXCEPT !.pc = "publish", !.reason = "Insufficient balance",
                     !.bal = balance[d.userId]]
  ELSE [run EXCEPT !.pc = "deduct", !.bal = balance[d.userId]]

\* const balance = await getUserBalance(userId), then the two early exits.
AfterBalanceRead(run, d) ==
  IF ~HasAccount(d.userId)
    THEN [run EXCEPT !.pc = "publish", !.reason = "User account not found"]
  ELSE IF balance[d.userId] < d.amount
    THEN [run EXCEPT !.pc = "publish", !.reason = "Insufficient balance",
                     !.bal = balance[d.userId]]
  ELSE [run EXCEPT !.pc = "deduct", !.bal = balance[d.userId]]

\* getUserBalance rejects (storage unavailable): control goes to the catch.
AfterBalanceError(run) ==
  [run EXCEPT !.pc = "catch", !.reason = "storage unavailable"]

\* processDonation(donationData) up to the answer of getUserBalance, for the
\* n-th delivery of message i.
StartRun(i, n) == [Idle EXCEPT !.pc = "getBalance", !.msg = i, !.delivery = n]

\* eachMessage of the donation consumer: processDonation reads the balance.
DeliverDonation(w, i) ==
  /\ FirstIdle(w)
  /\ dDeliveries[i] = 0
  /\ dDeliveries' = [dDeliveries EXCEPT ![i] = 1]
  /\ pw' = [pw EXCEPT ![w] = AfterBalanceRead(StartRun(i, 1), donationTopic[i])]
  /\ UNCHANGED <<idempotencyCache, reqs, nextDonation, donationTopic>>
  /\ UNCHANGED <<accounts, balance, handled, paymentTopic, pDeliveries>>
  /\ UNCHANGED <<aggVars, envVars>>
  /\ UNCHANGED <<readVars, bootVars, backVars, lifeVars, storeVars>>

\* eachMessage of the donation consumer: getUserBalance rejects.
DeliverDonationFail(w, i) ==
  /\ FirstIdle(w)
  /\ dDeliveries[i] = 0
  /\ CanFail
  /\ faults' = faults + 1
  /\ dDeliveries' = [dDeliveries EXCEPT ![i] = 1]
  /\ pw' = [pw EXCEPT ![w] = AfterBalanceError(StartRun(i, 1))]
  /\ UNCHANGED <<idempotencyCache, reqs, nextDonation, donationTopic>>
  /\ UNCHANGED <<accounts, balance, handled, paymentTopic, pDeliveries>>
  /\ UNCHANGED <<aggVars, redeliveries, startBalance>>
  /\ UNCHANGED <<readVars, bootVars, backVars, lifeVars, storeVars>>

\* at-least-once: the broker hands a message to the group again (retry, or a
\* restart before the offset commit).
RedeliverDonation(w, i) ==
  /\ FirstIdle(w)
  /\ dDeliveries[i] > 0
  /\ CanRedeliver
  /\ redeliveries' = redeliveries + 1
  /\ dDeliveries' = [dDeliveries EXCEPT ![i] = @ + 1]
  /\ pw' = [pw EXCEPT ![w] = AfterBalanceRead(StartRun(i, dDeliveries[i] + 1),
                                              donationTopic[i])]
  /\ UNCHANGED <<idempotencyCache, reqs, nextDonation, donationTopic>>
  /\ UNCHANGED <<accounts, balance, handled, paymentTopic, pDeliveries>>
  /\ UNCHANGED <<aggVars, faults, startBalance>>
  /\ UNCHANGED <<readVars, bootVars, backVars, lifeVars, storeVars>>

\* (mutant) the debit is not guarded by the balance
CanDebitUnguarded(u, amount) == u \in accounts

\* The ledger's conditional debit: the guard and the decrement are one step.
CanDebit(u, amount) == HasAccount(u) /\ balance[u] >= amount

\* const result = await deductBalance(userId, amount)
DeductBalance(w) ==
  /\ pw[w].pc = "deduct"
  /\ LET d == donationTopic[pw[w].msg] IN
       IF CanDebit(d.userId, d.amount)
         THEN /\ balance' = [balance EXCEPT ![d.userId] = @ - d.amount]
              /\ pw' = [pw EXCEPT ![w].pc = "publish", ![w].reason = "",
                                  ![w].newBal = balance[d.userId] - d.amount,
                                  ![w].debited = TRUE]
         ELSE /\ balance' = balance
              /\ pw' = [pw EXCEPT ![w].pc = "catch", ![w].reason = "Insufficient balance"]
  /\ UNCHANGED <<intakeVars, aggVars, envVars>>
  /\ UNCHANGED <<accounts, handled, paymentTopic, pDeliveries>>
  /\ UNCHANGED <<readVars, bootVars, backVars, lifeVars, storeVars>>

\* deductBalance rejects with a storage error: nothing is debited.
DeductBalanceFail(w) ==
  /\ pw[w].pc = "deduct"
  /\ CanFail
  /\ faults' = faults + 1
  /\ pw' = [pw EXCEPT ![w].pc = "catch", ![w].reason = "storage unavailable"]
  /\ UNCHANGED <<intakeVars, aggVars, redeliveries, startBalance>>
  /\ UNCHANGED <<accounts, balance, handled, paymentTopic, pDeliveries>>
  /\ UNCHANGED <<readVars, bootVars, backVars, lifeVars, storeVars>>

\* (mutant) the insufficient-balance event does not carry the balance read
EventOfNoCurrentBalance(w) ==
  LET d == donationTopic[pw[w].msg]
      run == <<pw[w].msg, pw[w].delivery>> IN
  IF pw[w].pc = "catch" \/ pw[w].reason /= ""
    THEN PaymentEvent(d, run, "failed", pw[w].reason, Absent, Absent, Absent)
  ELSE PaymentEvent(d, run, "success", "", pw[w].bal, pw[w].newBal, Absent)

\* The event built at the worker's position.
EventOf(w) ==
  LET d == donationTopic[pw[w].msg]
      run == <<pw[w].msg, pw[w].delivery>> IN
  IF pw[w].pc = "catch"
    THEN PaymentEvent(d, run, "failed", pw[w].reason, Absent, Absent, Absent)
  ELSE IF pw[w].reason = "User account not found"
    THEN PaymentEvent(d, run, "failed", pw[w].reason, Absent, Absent, Absent)
  ELSE IF pw[w].reason = "Insufficient balance"
    THEN PaymentEvent(d, run, "failed", pw[w].reason, Absent, Absent, pw[w].bal)
  ELSE PaymentEvent(d, run, "success", "", pw[w].bal, pw[w].newBal, Absent)

\* One finished run of processDonation (history).
Run(w, emitted) ==
  [msg |-> pw[w].msg, delivery |-> pw[w].delivery,
   donationId |-> donationTopic[pw[w].msg].donationId,
   debited |-> pw[w].debited, emitted |-> emitted]

\* publishPaymentEvent of the payment service's producer: the event joins the topic.
PublishedPayment(topic, e) == topic \cup {e}

\* await publishPaymentEvent({...}) resolves and processDonation returns.
PublishPaymentEvent(w) ==
  /\ pw[w].pc \in {"publish", "catch"}
  /\ paymentTopic' = PublishedPayment(paymentTopic, EventOf(w))
  /\ pDeliveries' = pDeliveries @@ (<<pw[w].msg, pw[w].delivery>> :> 0)
  /\ handled' = handled \cup {Run(w, 1)}
  /\ pw' = [pw EXCEPT ![w] = Idle]
  /\ UNCHANGED <<intakeVars, aggVars, envVars>>
  /\ UNCHANGED <<accounts, balance>>
  /\ UNCHANGED <<readVars, bootVars, backVars, lifeVars, storeVars>>

\* await publishPaymentEvent({...}) rejects inside the try: control goes to the catch.
PublishPaymentFailInTry(w) ==
  /\ pw[w].pc = "publish"
  /\ CanFail
  /\ faults' = faults + 1
  /\ pw' = [pw EXCEPT ![w].pc = "catch", ![w].reason = "broker unavailable"]
  /\ UNCHANGED <<intakeVars, aggVars, redeliveries, startBalance>>
  /\ UNCHANGED <<accounts, balance, handled, paymentTopic, pDeliveries>>
  /\ UNCHANGED <<readVars, bootVars, backVars, lifeVars, storeVars>>

\* The publish inside the catch rejects: processDonation throws, eachMessage logs it.
PublishPaymentFailInCatch(w) ==
  /\ pw[w].pc = "catch"
  /\ CanFail
  /\ faults' = faults + 1
  /\ handled' = handled \cup {Run(w, 0)}
  /\ pw' = [pw EXCEPT ![w] = Idle]
  /\ UNCHANGED <<intakeVars, aggVars, redeliveries, startBalance>>
  /\ UNCHANGED <<accounts, balance, paymentTopic, pDeliveries>>
  /\ UNCHANGED <<readVars, bootVars, backVars, lifeVars, storeVars>>

\* ---------------------------------------------- payment-service: accounts
\* users.id of a registered user: loginData.id of the event and userId of the
\* donations of that user.
UserIdOf(email) == IF email = "a@x.io" THEN "u1" ELSE "u2"

\* the users whose registration event is on the 'Login' topic
RegisteredUsers == {UserIdOf(m) : m \in loginTopic}

\* createUserAccount(id, username, email) of the payment service's ledger: the
\* user has an account row afterwards.
AccountsWith(u) == accounts \cup {u}

\* eachMessage of the login consumer: processLoginEvent calls
\* createUserAccount(id, username, email), which adds the account row of a
\* user that has none.
ProcessLoginEvent(m) ==
  /\ m \in loginTopic
  /\ UserIdOf(m) \notin accounts
  /\ accounts' = AccountsWith(UserIdOf(m))
  /\ balance' = [balance EXCEPT ![UserIdOf(m)] = startBalance]
  /\ UNCHANGED <<pw, handled, paymentTopic, pDeliveries>>
  /\ UNCHANGED <<intakeVars, aggVars, envVars>>
  /\ UNCHANGED <<readVars, bootVars, backVars, lifeVars, storeVars>>

\* ------------------------------------------------------- campaign-service
NoRun == <<0, 0>>
AggIdle == [pc |-> "idle", msg |-> NoRun, delivery |-> 0, txn |-> Absent, dels |-> {}]

\* redis keys: `campaigns:${id}` is the id, 'campaigns:all' is AllKey
AllKey == 0
CacheKeys == Campaigns \cup {AllKey}

\* A cached or queried result: total_amount_raised of each row it holds
\* (Absent for a row it does not hold).  A key that is not in redis holds
\* NoSnapshot.
NoSnapshot == [c \in Campaigns |-> Absent]

\* the payment message produced by run m
PaymentAt(m) == CHOOSE e \in paymentTopic : e.run = m

\* One finished run of the payment consumer's eachMessage (history).
AggRun(m, n, outcome) == [msg |-> m, delivery |-> n, outcome |-> outcome]

\* (mutant) every payment event reaches updateCampaignTotal
NeedsUpdateAlways(e) == TRUE

\* eachMessage: only a 'success' event reaches updateCampaignTotal.
NeedsUpdate(e) == e.status = "success"

\* the run started by the n-th delivery of payment message m
StartAggRun(m, n) ==
  IF NeedsUpdate(PaymentAt(m))
    THEN /\ ag' = [AggIdle EXCEPT !.pc = "update", !.msg = m, !.delivery = n]
         /\ UNCHANGED aggHandled
    ELSE /\ ag' = AggIdle
         /\ aggHandled' = aggHandled \cup {AggRun(m, n, "skipped")}

DeliverPayment(m) ==
  /\ ag.pc = "idle"
  /\ pDeliveries[m] = 0
  /\ pDeliveries' = [pDeliveries EXCEPT ![m] = 1]
  /\ StartAggRun(m, 1)
  /\ UNCHANGED <<intakeVars, total, cache, envVars>>
  /\ UNCHANGED <<accounts, balance, pw, handled, paymentTopic>>
  /\ UNCHANGED <<readVars, bootVars, backVars, lifeVars, storeVars>>

RedeliverPayment(m) ==
  /\ ag.pc = "idle"
  /\ pDeliveries[m] > 0
  /\ CanRedeliver
  /\ redeliveries' = redeliveries + 1
  /\ pDeliveries' = [pDeliveries EXCEPT ![m] = @ + 1]
  /\ StartAggRun(m, pDeliveries[m] + 1)
  /\ UNCHANGED <<intakeVars, total, cache, faults, startBalance>>
  /\ UNCHANGED <<accounts, balance, pw, handled, paymentTopic>>
  /\ UNCHANGED <<readVars, bootVars, backVars, lifeVars, storeVars>>

AggFinish(outcome) ==
  /\ ag' = AggIdle
  /\ aggHandled' = aggHandled \cup {AggRun(ag.msg, ag.delivery, outcome)}

\* (mutant) the amount is taken off the total
IncrementedWrongSign(t, amount) == t - amount

\* SET total_amount_raised = total_amount_raised + $1
Incremented(t, amount) == t + amount

\* (mutant) no return after the ROLLBACK of an UPDATE that matched no row
UpdateCampaignTotalNoReturn ==
  /\ ag.pc = "update"
  /\ LET e == PaymentAt(ag.msg) IN
       IF e.campaignId \in Campaigns
         THEN ag' = [ag EXCEPT !.pc = "commit",
                               !.txn = Incremented(total[e.campaignId], e.amount)]
         ELSE ag' = [ag EXCEPT !.pc = "delSingle"]
  /\ UNCHANGED <<intakeVars, payVars, envVars, total, cache, aggHandled>>
  /\ UNCHANGED <<readVars, bootVars, backVars, lifeVars, storeVars>>

\* BEGIN; UPDATE campaigns SET total_amount_raised = total_amount_raised + $1 WHERE id = $2
\* No row: ROLLBACK and return.
UpdateCampaignTotal ==
  /\ ag.pc = "update"
  /\ LET e == PaymentAt(ag.msg) IN
       IF e.campaignId \in Campaigns
         THEN /\ ag' = [ag EXCEPT !.pc = "commit",
                                  !.txn = Incremented(total[e.campaignId], e.amount)]
              /\ UNCHANGED aggHandled
         ELSE AggFinish("notfound")
  /\ UNCHANGED <<intakeVars, payVars, envVars, total, cache>>
  /\ UNCHANGED <<readVars, bootVars, backVars, lifeVars, storeVars>>

\* COMMIT
CommitCampaignTotal ==
  /\ ag.pc = "commit"
  /\ total' = [total EXCEPT ![PaymentAt(ag.msg).campaignId] = ag.txn]
  /\ ag' = [ag EXCEPT !.pc = "delSingle", !.txn = Absent]
  /\ UNCHANGED <<intakeVars, payVars, envVars, cache, aggHandled>>
  /\ UNCHANGED <<readVars, bootVars, backVars, lifeVars, storeVars>>

\* (mutant) an error at COMMIT leaves the increment in place
CampaignStorageFailNoRollback ==
  /\ ag.pc \in {"update", "commit"}
  /\ CanFail
  /\ faults' = faults + 1
  /\ total' = IF ag.pc = "commit"
                THEN [total EXCEPT ![PaymentAt(ag.msg).campaignId] = ag.txn]
                ELSE total
  /\ ag' = AggIdle
  /\ aggHandled' = aggHandled \cup {AggRun(ag.msg, ag.delivery, "error")}
  /\ UNCHANGED <<intakeVars, payVars, redeliveries, startBalance, cache>>
  /\ UNCHANGED <<readVars, bootVars, backVars, lifeVars, storeVars>>

\* The catch of updateCampaignTotal invalidates the cache after its ROLLBACK.
CampaignStorageFailInvalidates ==
  /\ ag.pc \in {"update", "commit"}
  /\ CanFail
  /\ faults' = faults + 1
  /\ cache' = [k \in CacheKeys |->
                IF k \in {PaymentAt(ag.msg).campaignId, AllKey}
                  THEN NoSnapshot ELSE cache[k]]
  /\ AggFinish("error")
  /\ UNCHANGED <<intakeVars, payVars, redeliveries, startBalance, total>>
  /\ UNCHANGED <<readVars, bootVars, backVars, lifeVars, storeVars>>

\* pool.connect or a query rejects: ROLLBACK, rethrow, eachMessage logs the error.
CampaignStorageFail ==
  /\ ag.pc \in {"update", "commit"}
  /\ CanFail
  /\ faults' = faults + 1
  /\ AggFinish("error")
  /\ UNCHANGED <<intakeVars, payVars, redeliveries, startBalance, total, cache>>
  /\ UNCHANGED <<readVars, bootVars, backVars, lifeVars, storeVars>>

\* invalidateCache: await redisClient.del(`campaigns:${campaignId}`)
DelSingleCache ==
  /\ ag.pc = "delSingle"
  /\ cache' = [cache EXCEPT ![PaymentAt(ag.msg).campaignId] = NoSnapshot]
  /\ ag' = [ag EXCEPT !.pc = "delAll", !.dels = @ \cup {PaymentAt(ag.msg).campaignId}]
  /\ UNCHANGED <<intakeVars, payVars, envVars, total, aggHandled>>
  /\ UNCHANGED <<readVars, bootVars, backVars, lifeVars, storeVars>>

\* (mutant) the list entry is refreshed with the new rows instead of deleted
DelAllCacheOverwrite ==
  /\ ag.pc = "delAll"
  /\ cache' = [cache EXCEPT ![AllKey] = total]
  /\ AggFinish("updated")
  /\ UNCHANGED <<intakeVars, payVars, envVars, total>>
  /\ UNCHANGED <<readVars, bootVars, backVars, lifeVars, storeVars>>

\* invalidateCache: await redisClient.del('campaigns:all')
DelAllCache ==
  /\ ag.pc = "delAll"
  /\ cache' = [cache EXCEPT ![AllKey] = NoSnapshot]
  /\ AggFinish("updated")
  /\ UNCHANGED <<intakeVars, payVars, envVars, total>>
  /\ UNCHANGED <<readVars, bootVars, backVars, lifeVars, storeVars>>

\* a redis del rejects: the catch of invalidateCache logs it and the run ends.
DelCacheFail ==
  /\ ag.pc \in {"delSingle", "delAll"}
  /\ CanFail
  /\ faults' = faults + 1
  /\ AggFinish("updated")
  /\ UNCHANGED <<intakeVars, payVars, redeliveries, startBalance, total, cache>>
  /\ UNCHANGED <<readVars, bootVars, backVars, lifeVars, storeVars>>

\* ----------------------------------------- campaign-service: GET handlers
Readers == {"r1", "r2"}
ReadKeys == CacheKeys \cup {UnknownCampaign}

\* A GET handler run: the key asked for, the rows queried, and the last answer.
RdIdle == [pc |-> "idle", key |-> AllKey, rows |-> NoSnapshot,
           status |-> 0, body |-> NoSnapshot]

Answer(k, status, body) == [RdIdle EXCEPT !.key = k, !.status = status, !.body = body]

\* await redisClient.get(cacheKey): null when the key is not in redis
CachedAt(k) == IF k \in CacheKeys THEN cache[k] ELSE NoSnapshot

\* pool.query('SELECT ... FROM campaigns ...'), all rows or WHERE id = $1
RowsOf(k) ==
  IF k = AllKey THEN total
  ELSE [c \in Campaigns |-> IF c = k THEN total[c] ELSE Absent]

\* GET /api/campaigns and GET /api/campaigns/:id up to the answer of
\* redisClient.get: a hit is answered from the cache.
GetCampaigns(r, k) ==
  /\ rd[r].pc = "idle"
  /\ rd' = [rd EXCEPT ![r] =
              IF CachedAt(k) /= NoSnapshot
                THEN Answer(k, 200, CachedAt(k))
                ELSE [RdIdle EXCEPT !.pc = "query", !.key = k]]
  /\ UNCHANGED <<intakeVars, payVars, aggVars, envVars, bootVars, backVars, lifeVars, storeVars>>

\* cache miss: await pool.query(...); no row for the id is answered 404.
QueryCampaigns(r) ==
  /\ rd[r].pc = "query"
  /\ rd' = [rd EXCEPT ![r] =
              IF rd[r].key /= AllKey /\ RowsOf(rd[r].key) = NoSnapshot
                THEN Answer(rd[r].key, 404, NoSnapshot)
                ELSE [rd[r] EXCEPT !.pc = "setEx", !.rows = RowsOf(rd[r].key)]]
  /\ UNCHANGED <<intakeVars, payVars, aggVars, envVars, bootVars, backVars, lifeVars, storeVars>>

\* await redisClient.setEx(cacheKey, CACHE_TTL, JSON.stringify(response)); res.json(response)
SetExCampaigns(r) ==
  /\ rd[r].pc = "setEx"
  /\ cache' = [cache EXCEPT ![rd[r].key] = rd[r].rows]
  /\ rd' = [rd EXCEPT ![r] = Answer(rd[r].key, 200, rd[r].rows)]
  /\ UNCHANGED <<intakeVars, payVars, envVars, bootVars, backVars, lifeVars, storeVars, total, ag, aggHandled>>

\* redisClient.get rejects: the catch answers 500.
GetCampaignsFail(r, k) ==
  /\ rd[r].pc = "idle"
  /\ CanFail
  /\ faults' = faults + 1
  /\ rd' = [rd EXCEPT ![r] = Answer(k, 500, NoSnapshot)]
  /\ UNCHANGED <<intakeVars, payVars, aggVars, bootVars, backVars, lifeVars, storeVars, redeliveries, startBalance>>

\* pool.query or redisClient.setEx rejects: the catch answers 500.
ReadFail(r) ==
  /\ rd[r].pc \in {"query", "setEx"}
  /\ CanFail
  /\ faults' = faults + 1
  /\ rd' = [rd EXCEPT ![r] = Answer(rd[r].key, 500, NoSnapshot)]
  /\ UNCHANGED <<intakeVars, payVars, aggVars, bootVars, backVars, lifeVars, storeVars, redeliveries, startBalance>>

\* redis drops a key CACHE_TTL seconds after its setEx.
ExpireCache(k) ==
  /\ cache[k] /= NoSnapshot
  /\ cache' = [cache EXCEPT ![k] = NoSnapshot]
  /\ UNCHANGED <<intakeVars, payVars, envVars, readVars, bootVars, backVars, lifeVars, storeVars, total, ag, aggHandled>>

\* ------------------------------------------------ startup of the consumers
\* The consumers by topic: 'donation' and 'Login' in the payment service,
\* 'payment' in the campaign service.
Consumers == {"donation", "Login", "payment"}
Services ==
  {"payment-service", "campaign-service", "notification-service", "backend-consumer"}
ServiceOf(c) ==
  IF c = "payment" THEN "campaign-service"
  ELSE IF c = "notification" THEN "notification-service"
  ELSE IF c = "backend-consumer" THEN "backend-consumer"
  ELSE "payment-service"
Topics == {"donation", "Login", "payment"}

maxRetries == 30

Booting(c, pc) == proc[ServiceOf(c)] = "up" /\ boot[c].pc = pc

\* The startup of a consumer: position, attempt of the current retry loop,
\* what the topic-ensure step returned ("pending" until it has returned), the
\* error the last attempt caught and what admin.createTopics resolved with.
BootAt(pc, attempt, ensured, err) ==
  [pc |-> pc, attempt |-> attempt, ensured |-> ensured, err |-> err,
   created |-> "none"]

\* The catch of the start function: startConsumer exits the process with
\* code 1, startLoginConsumer and startPaymentConsumer log the error and return.
StartFailed(c) ==
  IF c = "donation"
    THEN /\ proc' = [proc EXCEPT ![ServiceOf(c)] = "exit1"]
         /\ boot' = boot
    ELSE /\ boot' = [boot EXCEPT ![c].pc = "stopped"]
         /\ proc' = proc

\* The topics ensureTopicsExist of the payment service looks after.
OwnTopics(s) == IF s = "payment-service" THEN Topics ELSE {}

\* startService: await ensureTopicsExist() resolves, the two consumers start.
EnsureTopicsExistOk(s) ==
  /\ proc[s] = "starting"
  /\ proc' = [proc EXCEPT ![s] = "up"]
  /\ topics' = topics \cup OwnTopics(s)
  /\ boot' = [c \in Consumers |->
                IF ServiceOf(c) = s THEN BootAt("connect", 0, "true", "")
                                    ELSE boot[c]]
  /\ UNCHANGED <<backVars, lifeVars, storeVars, intakeVars, payVars, aggVars, envVars, readVars>>

\* startService: await ensureTopicsExist() rejects, the catch exits with code 1.
EnsureTopicsExistFail(s) ==
  /\ proc[s] = "starting"
  /\ proc' = [proc EXCEPT ![s] = "exit1"]
  /\ UNCHANGED <<backVars, lifeVars, storeVars, intakeVars, payVars, aggVars, envVars, readVars, boot, topics>>

\* ensurePaymentTopicExists: admin.connect() and admin.listTopics() resolve.
\* The topic is listed: return true. It is not: call admin.createTopics.
ListTopics(c) ==
  /\ Booting(c, "ensure")
  /\ boot' = [boot EXCEPT ![c] =
                IF c \in topics THEN BootAt("connect", 0, "true", "")
                                ELSE [@ EXCEPT !.pc = "create"]]
  /\ UNCHANGED <<backVars, lifeVars, storeVars, intakeVars, payVars, aggVars, envVars, readVars, proc, topics>>

\* admin.createTopics rejects when the topic is there already.
CreateTopicsRejectsExisting(c) ==
  /\ Booting(c, "create")
  /\ topics' = topics \cup {c}
  /\ boot' = [boot EXCEPT ![c] =
                IF c \in topics
                  THEN IF boot[c].attempt = maxRetries
                         THEN BootAt("connect", 0, "false", "TOPIC_ALREADY_EXISTS")
                         ELSE BootAt("ensure", boot[c].attempt + 1, "pending",
                                     "TOPIC_ALREADY_EXISTS")
                  ELSE [BootAt("connect", 0, "true", "") EXCEPT !.created = "true"]]
  /\ UNCHANGED <<backVars, lifeVars, storeVars, intakeVars, payVars, aggVars, envVars, readVars, proc>>

\* ensurePaymentTopicExists: admin.createTopics resolves (true when it created
\* the topic, false when the topic was there already; the code does not look
\* at the value), admin.disconnect(), return true.
CreateTopics(c) ==
  /\ Booting(c, "create")
  /\ topics' = topics \cup {c}
  /\ boot' = [boot EXCEPT ![c] =
                [BootAt("connect", 0, "true", "") EXCEPT
                   !.created = IF c \in topics THEN "false" ELSE "true"]]
  /\ UNCHANGED <<backVars, lifeVars, storeVars, intakeVars, payVars, aggVars, envVars, readVars, proc>>

\* ensurePaymentTopicExists: a call of the admin client rejects (the broker is
\* not reachable): wait retryDelay and try again; after attempt maxRetries
\* return false, which startPaymentConsumer does not look at.
EnsureTopicFail(c) ==
  /\ Booting(c, "ensure") \/ Booting(c, "create")
  /\ boot' = [boot EXCEPT ![c] =
                IF boot[c].attempt = maxRetries
                  THEN BootAt("connect", 0, "false", "unreachable")
                  ELSE BootAt("ensure", boot[c].attempt + 1, "pending", "unreachable")]
  /\ UNCHANGED <<backVars, lifeVars, storeVars, intakeVars, payVars, aggVars, envVars, readVars, proc, topics>>

\* await consumer.connect() resolves: the subscribe loop starts at attempt 1.
ConnectConsumer(c) ==
  /\ Booting(c, "connect")
  /\ boot' = [boot EXCEPT ![c] = BootAt("subscribe", 1, boot[c].ensured, "")]
  /\ UNCHANGED <<backVars, lifeVars, storeVars, intakeVars, payVars, aggVars, envVars, readVars, proc, topics>>

\* await consumer.connect() rejects.
ConnectConsumerFail(c) ==
  /\ Booting(c, "connect")
  /\ StartFailed(c)
  /\ UNCHANGED <<backVars, lifeVars, storeVars, intakeVars, payVars, aggVars, envVars, readVars, topics>>

\* await consumer.subscribe(...) resolves: consumer.run starts the consume loop.
SubscribeOk(c) ==
  /\ Booting(c, "subscribe")
  /\ boot' = [boot EXCEPT ![c].pc = "running"]
  /\ UNCHANGED <<backVars, lifeVars, storeVars, intakeVars, payVars, aggVars, envVars, readVars, proc, topics>>

\* await consumer.subscribe(...) rejects: wait retryDelay and try again, or
\* throw after attempt maxRetries.
SubscribeFail(c) ==
  /\ Booting(c, "subscribe")
  /\ IF boot[c].attempt = maxRetries
       THEN StartFailed(c)
       ELSE /\ boot' = [boot EXCEPT ![c].attempt = @ + 1]
            /\ proc' = proc
  /\ UNCHANGED <<backVars, lifeVars, storeVars, intakeVars, payVars, aggVars, envVars, readVars, topics>>

\* ------------------------------------------------- backend: registration
Emails == {"a@x.io", "b@x.io"}
NoFormat == "a.x.io"                 \* an email the format check refuses
LongEnough == 8                      \* password.length of an accepted password
TooShort == 7

RegisterInputs ==
  { <<"a@x.io", LongEnough>>, <<"b@x.io", LongEnough>>,
    <<NoFormat, LongEnough>>, <<"a@x.io", TooShort>>, <<"", LongEnough>> }

\* jwt.sign: the token is a function of the payload (user, type, iat).
Token(email, type, iat) == [email |-> email, type |-> type, iat |-> iat]
NoToken == Token("", "none", 0)
Garbage == Token("", "garbage", 0)

\* The /api/register handler: position, request, response, and the error
\* messages the producer logged for it.
RegIdle ==
  [pc |-> "idle", email |-> "", status |-> 0, error |-> "",
   accessToken |-> NoToken, refreshToken |-> NoToken, logged |-> {}, err |-> ""]

RegAnswer(email, status, error) ==
  [RegIdle EXCEPT !.pc = "done", !.email = email, !.status = status, !.error = error]

\* The validation of /api/register: the message of the 400, "" when it passes.
RegisterRefusal(email, passwordLength) ==
  IF email = "" \/ passwordLength = 0 THEN "email and password required"
  ELSE IF email \notin Emails THEN "Invalid email format"
  ELSE IF passwordLength < 8 THEN "Password must be at least 8 characters long"
  ELSE IF email \in users THEN "User already exists"
  ELSE ""

\* connectProducer: what publishUserRegistration awaits first.
FirstPublishStep ==
  IF isConnected THEN "send" ELSE IF topicEnsured THEN "connect" ELSE "list"

\* POST /api/register up to the INSERT: a refused request answers 400, an
\* accepted one inserts the user row and calls publishUserRegistration.
Register(email, passwordLength) ==
  /\ reg.pc \in {"idle", "done"}
  /\ LET refusal == RegisterRefusal(email, passwordLength) IN
       IF refusal /= ""
         THEN /\ reg' = RegAnswer(email, 400, refusal)
              /\ users' = users
         ELSE /\ reg' = [RegIdle EXCEPT !.pc = FirstPublishStep, !.email = email]
              /\ users' = users \cup {email}
  /\ UNCHANGED <<isConnected, topicEnsured, loginTopic, issued>>
  /\ UNCHANGED <<tokenBlacklist, revoked, clock, resp>>
  /\ UNCHANGED <<intakeVars, payVars, aggVars, envVars, readVars, lifeVars, storeVars, bootVars>>

\* POST /api/register: a query of the users table rejects, the catch answers 500.
RegisterFail(email, passwordLength) ==
  /\ reg.pc \in {"idle", "done"}
  /\ RegisterRefusal(email, passwordLength) \in {"", "User already exists"}
  /\ reg' = RegAnswer(email, 500, "internal")
  /\ UNCHANGED <<users, isConnected, topicEnsured, loginTopic, issued>>
  /\ UNCHANGED <<tokenBlacklist, revoked, clock, resp>>
  /\ UNCHANGED <<intakeVars, payVars, aggVars, envVars, readVars, lifeVars, storeVars, bootVars>>

\* ensureTopicExists: admin.connect() and admin.listTopics() resolve.
RegListTopics ==
  /\ reg.pc = "list"
  /\ IF "Login" \in topics
       THEN /\ topicEnsured' = TRUE
            /\ reg' = [reg EXCEPT !.pc = "connect"]
       ELSE /\ topicEnsured' = topicEnsured
            /\ reg' = [reg EXCEPT !.pc = "create"]
  /\ UNCHANGED <<users, isConnected, loginTopic, issued>>
  /\ UNCHANGED <<tokenBlacklist, revoked, clock, resp>>
  /\ UNCHANGED <<intakeVars, payVars, aggVars, envVars, readVars, lifeVars, storeVars, bootVars>>

\* ensureTopicExists: admin.createTopics resolves (false when the topic was
\* there already), topicEnsured = true.
RegCreateTopics ==
  /\ reg.pc = "create"
  /\ topics' = topics \cup {"Login"}
  /\ topicEnsured' = TRUE
  /\ reg' = [reg EXCEPT !.pc = "connect"]
  /\ UNCHANGED <<users, isConnected, loginTopic, issued>>
  /\ UNCHANGED <<tokenBlacklist, revoked, clock, resp>>
  /\ UNCHANGED <<intakeVars, payVars, aggVars, envVars, readVars, lifeVars, storeVars, boot, proc>>

\* ensureTopicExists: a call of the admin client rejects; the catch logs the
\* error and does not throw, connectProducer goes on to producer.connect().
RegEnsureFail ==
  /\ reg.pc \in {"list", "create"}
  /\ reg' = [reg EXCEPT !.pc = "connect", !.err = "unreachable",
                        !.logged = @ \cup {"Error ensuring Login topic exists"}]
  /\ UNCHANGED <<users, isConnected, topicEnsured, loginTopic, issued>>
  /\ UNCHANGED <<tokenBlacklist, revoked, clock, resp>>
  /\ UNCHANGED <<intakeVars, payVars, aggVars, envVars, readVars, lifeVars, storeVars, bootVars>>

\* connectProducer: producer.connect() resolves, isConnected = true.
RegConnect ==
  /\ reg.pc = "connect"
  /\ isConnected' = TRUE
  /\ reg' = [reg EXCEPT !.pc = "send"]
  /\ UNCHANGED <<users, topicEnsured, loginTopic, issued>>
  /\ UNCHANGED <<tokenBlacklist, revoked, clock, resp>>
  /\ UNCHANGED <<intakeVars, payVars, aggVars, envVars, readVars, lifeVars, storeVars, bootVars>>

\* The rest of the handler after publishUserRegistration has returned: sign
\* the two tokens and answer 201.
Registered(r) ==
  [r EXCEPT !.pc = "done", !.status = 201,
            !.accessToken = Token(r.email, "access", clock),
            !.refreshToken = Token(r.email, "refresh", clock)]

\* The publish failure reaches the caller: the catch of the handler answers 500.
PublishFailedThrows(r) ==
  [r EXCEPT !.pc = "done", !.status = 500, !.error = "internal",
            !.logged = @ \cup {"Failed to publish to Kafka"}]

\* publishUserRegistration's catch: log the error and return.
PublishFailed(r) ==
  Registered([r EXCEPT !.logged = @ \cup {"Failed to publish to Kafka"}])

\* producer.send resolves: the event is on the Login topic.
RegSend ==
  /\ reg.pc = "send"
  /\ loginTopic' = loginTopic \cup {reg.email}
  /\ reg' = Registered(reg)
  /\ issued' = issued \cup {reg'.accessToken, reg'.refreshToken}
  /\ UNCHANGED <<users, isConnected, topicEnsured>>
  /\ UNCHANGED <<tokenBlacklist, revoked, clock, resp>>
  /\ UNCHANGED <<intakeVars, payVars, aggVars, envVars, readVars, lifeVars, storeVars, bootVars>>

\* producer.connect() or producer.send rejects.
RegPublishFail ==
  /\ reg.pc \in {"connect", "send"}
  /\ reg' = PublishFailed(reg)
  /\ issued' = issued \cup {reg'.accessToken, reg'.refreshToken}
  /\ UNCHANGED <<users, isConnected, topicEnsured, loginTopic>>
  /\ UNCHANGED <<tokenBlacklist, revoked, clock, resp>>
  /\ UNCHANGED <<intakeVars, payVars, aggVars, envVars, readVars, lifeVars, storeVars, bootVars>>

\* ------------------------------------------------------ backend: sessions
\* Time in units of the lifetime of an access token ('15m'); a refresh token
\* lives '7d'.
JWT_EXPIRES_IN == 1
JWT_REFRESH_EXPIRES_IN == 672
Instants == {0, JWT_EXPIRES_IN, JWT_REFRESH_EXPIRES_IN}

ExpiresIn(type) == IF type = "access" THEN JWT_EXPIRES_IN ELSE JWT_REFRESH_EXPIRES_IN

\* jwt.verify(token, secret): the access and the refresh secret differ, a
\* token signed with the other secret or a malformed one is a JsonWebTokenError.
Verify(t, type) ==
  IF t.type /= type THEN "JsonWebTokenError"
  ELSE IF clock >= t.iat + ExpiresIn(type) THEN "TokenExpiredError"
  ELSE "ok"

\* The last response of the backend: route, presented token, refresh token of
\* the body, status and error.
Resp(route, t, body, status, error) ==
  [route |-> route, token |-> t, body |-> body, status |-> status, error |-> error]

\* authMiddleware verifies the token before it looks at the blacklist.
AuthMiddlewareVerifyFirst(t) ==
  IF t = NoToken THEN "Missing authorization header"
  ELSE IF Verify(t, "access") = "TokenExpiredError" THEN "Token expired"
  ELSE IF Verify(t, "access") = "JsonWebTokenError" THEN "Invalid token"
  ELSE IF t \in tokenBlacklist THEN "Token revoked"
  ELSE ""

\* authMiddleware: the error of the 401, "" when next() is called.
AuthMiddleware(t) ==
  IF t = NoToken THEN "Missing authorization header"
  ELSE IF t \in tokenBlacklist THEN "Token revoked"
  ELSE IF Verify(t, "access") = "TokenExpiredError" THEN "Token expired"
  ELSE IF Verify(t, "access") = "JsonWebTokenError" THEN "Invalid token"
  ELSE ""

\* The tokens a client can present: the ones the backend has issued, none, or
\* a string that is no token.
TokenInputs == issued \cup {NoToken, Garbage}
BodyInputs == {t \in issued : t.type = "refresh"} \cup {NoToken}

\* POST /api/login
Login(email, passwordOk) ==
  /\ IF email \in users /\ passwordOk
       THEN /\ issued' = issued \cup {Token(email, "access", clock),
                                      Token(email, "refresh", clock)}
            /\ resp' = Resp("login", NoToken, NoToken, 200, "")
       ELSE /\ issued' = issued
            /\ resp' = Resp("login", NoToken, NoToken, 400, "Invalid credentials")
  /\ UNCHANGED <<users, isConnected, topicEnsured, reg, loginTopic>>
  /\ UNCHANGED <<tokenBlacklist, revoked, clock>>
  /\ UNCHANGED <<intakeVars, payVars, aggVars, envVars, readVars, lifeVars, storeVars, bootVars>>

\* POST /api/refresh looks at the blacklist after verifying the token.
RefreshRefusalVerifyFirst(t) ==
  IF t = NoToken THEN "Refresh token required"
  ELSE IF Verify(t, "refresh") = "TokenExpiredError" THEN "Refresh token expired"
  ELSE IF Verify(t, "refresh") = "JsonWebTokenError" THEN "Invalid refresh token"
  ELSE IF t \in tokenBlacklist THEN "Refresh token revoked"
  ELSE ""

\* POST /api/refresh: the error of the refusal, "" when a token is issued.
RefreshRefusal(t) ==
  IF t = NoToken THEN "Refresh token required"
  ELSE IF t \in tokenBlacklist THEN "Refresh token revoked"
  ELSE IF Verify(t, "refresh") = "TokenExpiredError" THEN "Refresh token expired"
  ELSE IF Verify(t, "refresh") = "JsonWebTokenError" THEN "Invalid refresh token"
  ELSE ""

Refresh(t) ==
  /\ LET refusal == RefreshRefusal(t) IN
       IF refusal = ""
         THEN /\ issued' = issued \cup {Token(t.email, "access", clock)}
              /\ resp' = Resp("refresh", t, NoToken, 200, "")
         ELSE /\ issued' = issued
              /\ resp' = Resp("refresh", t, NoToken,
                              IF t = NoToken THEN 400 ELSE 401, refusal)
  /\ UNCHANGED <<users, isConnected, topicEnsured, reg, loginTopic>>
  /\ UNCHANGED <<tokenBlacklist, revoked, clock>>
  /\ UNCHANGED <<intakeVars, payVars, aggVars, envVars, readVars, lifeVars, storeVars, bootVars>>

\* POST /api/logout: tokenBlacklist.add(token), and add(refreshToken) if given.
Blacklisted(t, body) == tokenBlacklist \cup {t} \cup ({body} \ {NoToken})

Logout(t, body) ==
  /\ LET refusal == AuthMiddleware(t) IN
       IF refusal = ""
         THEN /\ tokenBlacklist' = Blacklisted(t, body)
              /\ revoked' = [access |-> revoked.access \cup {t},
                             refresh |-> revoked.refresh \cup ({body} \ {NoToken})]
              /\ resp' = Resp("logout", t, body, 200, "")
         ELSE /\ UNCHANGED <<tokenBlacklist, revoked>>
              /\ resp' = Resp("logout", t, body, 401, refusal)
  /\ UNCHANGED <<users, isConnected, topicEnsured, reg, loginTopic>>
  /\ UNCHANGED <<issued, clock>>
  /\ UNCHANGED <<intakeVars, payVars, aggVars, envVars, readVars, lifeVars, storeVars, bootVars>>

\* GET /api/profile, a protected route.
Profile(t) ==
  /\ LET refusal == AuthMiddleware(t) IN
       resp' = IF refusal /= "" THEN Resp("profile", t, NoToken, 401, refusal)
               ELSE IF t.email \in users THEN Resp("profile", t, NoToken, 200, "")
               ELSE Resp("profile", t, NoToken, 404, "Not found")
  /\ UNCHANGED <<users, isConnected, topicEnsured, reg, loginTopic>>
  /\ UNCHANGED <<issued, tokenBlacklist, revoked, clock>>
  /\ UNCHANGED <<intakeVars, payVars, aggVars, envVars, readVars, lifeVars, storeVars, bootVars>>

\* Time passes.
Advance(i) ==
  /\ i > clock
  /\ clock' = i
  /\ UNCHANGED <<users, isConnected, topicEnsured, reg, loginTopic>>
  /\ UNCHANGED <<issued, tokenBlacklist, revoked, resp>>
  /\ UNCHANGED <<intakeVars, payVars, aggVars, envVars, readVars, lifeVars, storeVars, bootVars>>

\* ---------------------------------------------- the consumers at work
\* The five consumers: the three above, the notification service ('donation'
\* topic) and the backend consumer ('Login' topic).
Listeners == Consumers \cup {"notification", "backend-consumer"}

\* What a message is to the handler of its consumer: a value that is not
\* JSON, or a value the handler can work on.
MessageKinds == {"notJson", "wellFormed"}

\* The eachMessage run of a consumer: position, messages consumed so far, the
\* offsets whose error was logged, and the membership of the consumer group.
LifeStart == [pc |-> "idle", offset |-> 0, logged |-> {}, member |-> "joined"]

Working(l) == proc[ServiceOf(l)] = "up"

\* The runner calls eachMessage with the next message.
Fetch(l) ==
  /\ Working(l)
  /\ life[l].member = "joined"
  /\ life[l].pc = "idle"
  /\ life[l].offset < Len(inbox)
  /\ life' = [life EXCEPT ![l].pc = "handling"]
  /\ UNCHANGED <<inbox, sig, pending>>
  /\ UNCHANGED <<backVars, storeVars, intakeVars, payVars, aggVars, envVars, readVars, bootVars>>

\* eachMessage: JSON.parse and the handler return, eachMessage resolves.
HandlerReturns(l) ==
  /\ Working(l)
  /\ life[l].pc = "handling"
  /\ inbox[life[l].offset + 1] = "wellFormed"
  /\ life' = [life EXCEPT ![l].pc = "idle", ![l].offset = @ + 1]
  /\ UNCHANGED <<inbox, sig, pending>>
  /\ UNCHANGED <<backVars, storeVars, intakeVars, payVars, aggVars, envVars, readVars, bootVars>>

\* eachMessage without its try/catch: the error rejects eachMessage, the
\* runner does not get past the message.
Thrown(l) == [life[l] EXCEPT !.pc = "crashed"]

\* eachMessage: the catch logs the error, eachMessage resolves.
Caught(l) ==
  [life[l] EXCEPT !.pc = "idle", !.offset = @ + 1,
                  !.logged = @ \cup {life[l].offset + 1}]

\* eachMessage: JSON.parse throws on a value that is not JSON, or the handler
\* throws on a well-formed one.
HandlerThrows(l) ==
  /\ Working(l)
  /\ life[l].pc = "handling"
  /\ life' = [life EXCEPT ![l] = Caught(l)]
  /\ UNCHANGED <<inbox, sig, pending>>
  /\ UNCHANGED <<backVars, storeVars, intakeVars, payVars, aggVars, envVars, readVars, bootVars>>

\* ------------------------------------------------------------- shutdown
Signals == {"SIGTERM", "SIGINT", "SIGUSR2"}

\* The handlers a process has registered for a signal: the signalTraps
\* handler of index.js ("trap") and the SIGTERM handler of tracing.js
\* ("tracing"). The campaign service registers no signalTraps handler.
Handlers(s, signal) ==
  (IF s = "campaign-service" THEN {} ELSE {"trap"})
    \cup (IF signal = "SIGTERM" /\ s /= "campaign-service" THEN {"tracing"} ELSE {})

\* The signals of the model: SIGTERM is not sent to the campaign service,
\* whose tracing module is not part of the source.
CanSignal(s, signal) == s = "campaign-service" => signal /= "SIGTERM"

\* A signal arrives at a process (one process is signalled in a run). Its
\* handlers start: the tracing handler calls sdk.shutdown(), the signalTraps
\* handler calls disconnect() on the consumers of the process. Without a
\* handler the signal ends the process.
Signal(s, signal) ==
  /\ proc[s] = "up"
  /\ \A q \in Services : sig[q] = "none"
  /\ CanSignal(s, signal)
  /\ sig' = [sig EXCEPT ![s] = signal]
  /\ pending' = [pending EXCEPT ![s] = Handlers(s, signal)]
  /\ proc' = [proc EXCEPT ![s] = IF Handlers(s, signal) = {} THEN "killed" ELSE "up"]
  /\ life' = [l \in Listeners |->
                IF ServiceOf(l) = s /\ "trap" \in Handlers(s, signal)
                  THEN [life[l] EXCEPT !.member = "stopping"]
                  ELSE life[l]]
  /\ UNCHANGED <<inbox, boot, topics>>
  /\ UNCHANGED <<backVars, storeVars, intakeVars, payVars, aggVars, envVars, readVars>>

\* consumer.disconnect(): the runner has finished the message in flight, the
\* consumer leaves its group.
LeaveGroup(l) ==
  /\ Working(l)
  /\ life[l].member = "stopping"
  /\ life[l].pc = "idle"
  /\ life' = [life EXCEPT ![l].member = "left"]
  /\ UNCHANGED <<inbox, sig, pending>>
  /\ UNCHANGED <<backVars, storeVars, intakeVars, payVars, aggVars, envVars, readVars, bootVars>>

\* The signalTraps handler: every disconnect() has resolved, finally exit(0).
TrapDone(s) ==
  /\ proc[s] = "up"
  /\ "trap" \in pending[s]
  /\ \A l \in Listeners : ServiceOf(l) = s => life[l].member = "left"
  /\ proc' = [proc EXCEPT ![s] = "exit0"]
  /\ UNCHANGED <<inbox, life, sig, pending, boot, topics>>
  /\ UNCHANGED <<backVars, storeVars, intakeVars, payVars, aggVars, envVars, readVars>>

\* The signalTraps handler: a disconnect() rejects, finally exit(0).
DisconnectFail(l) ==
  /\ Working(l)
  /\ life[l].member = "stopping"
  /\ proc' = [proc EXCEPT ![ServiceOf(l)] = "exit0"]
  /\ UNCHANGED <<inbox, life, sig, pending, boot, topics>>
  /\ UNCHANGED <<backVars, storeVars, intakeVars, payVars, aggVars, envVars, readVars>>

\* The tracing handler: sdk.shutdown() settles, finally exit(0).
TracingDone(s) ==
  /\ proc[s] = "up"
  /\ "tracing" \in pending[s]
  /\ proc' = [proc EXCEPT ![s] = "exit0"]
  /\ UNCHANGED <<inbox, life, sig, pending, boot, topics>>
  /\ UNCHANGED <<backVars, storeVars, intakeVars, payVars, aggVars, envVars, readVars>>

\* ------------------------------------------------------------ the system
InitialTotal == [c \in Campaigns |-> 0]

InitIntake ==
  /\ idempotencyCache = [k \in Keys |-> NoEntry]
  /\ now = 0
  /\ stamp = [k \in Keys |-> 0]
  /\ swept = Absent
  /\ startedAt = 0
  /\ reqs = <<>>
  /\ nextDonation = 1
  /\ donationTopic = <<>>
  /\ dDeliveries = <<>>

InitPayment(balances) ==
  /\ accounts = {"u1"}
  /\ startBalance \in balances
  /\ balance = [u \in Users |-> IF u = "u1" THEN startBalance ELSE 0]
  /\ pw = [w \in Workers |-> Idle]
  /\ handled = {}
  /\ paymentTopic = {}
  /\ pDeliveries = <<>>

InitAggregator ==
  /\ total = InitialTotal
  /\ cache = [k \in CacheKeys |-> NoSnapshot]
  /\ ag = AggIdle
  /\ aggHandled = {}

InitEnv ==
  /\ faults = 0
  /\ redeliveries = 0

InitReaders == rd = [r \in Readers |-> RdIdle]

\* every consumer is in its consume loop
InitBooted ==
  /\ boot = [c \in Consumers |-> BootAt("running", 1, "true", "")]
  /\ proc = [s \in Services |-> "up"]
  /\ topics = Topics

\* the startup skips the topic-ensure step
InitBootNoEnsure ==
  /\ boot = [c \in Consumers |-> BootAt("connect", 0, "pending", "")]
  /\ proc = [s \in Services |-> "up"]
  /\ topics = {}

\* the services start on a broker without topics: startService calls
\* ensureTopicsExist, startPaymentConsumer calls ensurePaymentTopicExists
InitBoot ==
  /\ boot = [c \in Consumers |->
              IF c = "payment" THEN BootAt("ensure", 1, "pending", "")
                               ELSE BootAt("start", 0, "pending", "")]
  /\ proc = [s \in Services |->
              IF s = "payment-service" THEN "starting" ELSE "up"]
  /\ topics = {}

\* the backend has started: no user, no token, the producer not connected
InitBackend(registered) ==
  /\ users = registered
  /\ isConnected = FALSE
  /\ topicEnsured = FALSE
  /\ reg = RegIdle
  /\ loginTopic = {}
  /\ issued = {}
  /\ tokenBlacklist = {}
  /\ revoked = [access |-> {}, refresh |-> {}]
  /\ clock = 0
  /\ resp = Resp("", NoToken, NoToken, 0, "")

\* every consumer is in its group and is given the messages
InitLife(messages) ==
  /\ inbox = messages
  /\ life = [l \in Listeners |-> LifeStart]
  /\ sig = [s \in Services |-> "none"]
  /\ pending = [s \in Services |-> {}]

InitServing ==
  InitEnv /\ InitReaders /\ InitBooted /\ InitBackend({}) /\ InitLife(<<>>)

Init == InitIntake /\ InitPayment({100}) /\ InitAggregator /\ InitServing

Intake(inputs, limit) ==
  \/ \E in \in inputs : Len(reqs) < limit /\ SubmitDonation(in[1], in[2], in[3], in[4])
  \/ \E r \in 1..Len(reqs) : PublishDonationOk(r)
  \/ \E r \in 1..Len(reqs) : CacheResponse(r)
  \/ \E r \in 1..Len(reqs) : Respond(r)

IntakeFaults ==
  \E r \in 1..Len(reqs) : PublishDonationFail(r)

Payment ==
  \/ \E w \in Workers, i \in 1..Len(donationTopic) : DeliverDonation(w, i)
  \/ \E w \in Workers : DeductBalance(w)
  \/ \E w \in Workers : PublishPaymentEvent(w)

PaymentFaults ==
  \/ \E w \in Workers, i \in 1..Len(donationTopic) : DeliverDonationFail(w, i)
  \/ \E w \in Workers : DeductBalanceFail(w)
  \/ \E w \in Workers : PublishPaymentFailInTry(w)
  \/ \E w \in Workers : PublishPaymentFailInCatch(w)

PaymentRedelivery ==
  \E w \in Workers, i \in 1..Len(donationTopic) : RedeliverDonation(w, i)

Aggregator ==
  \/ \E m \in DOMAIN pDeliveries : DeliverPayment(m)
  \/ UpdateCampaignTotal
  \/ CommitCampaignTotal
  \/ DelSingleCache
  \/ DelAllCache

AggregatorFaults ==
  \/ CampaignStorageFail
  \/ DelCacheFail

AggregatorRedelivery ==
  \E m \in DOMAIN pDeliveries : RedeliverPayment(m)

\* The donation service alone, under concurrent requests and publish errors.
NextIntake == Intake(RequestInputs, MaxSubmissions) \/ IntakeFaults

SpecIntake == Init /\ [][NextIntake]_vars

\* The payment events enumerated for the campaign service alone:
\* (status, campaignId, amount).
PaymentInputs ==
  { <<"success", 1, 10>>, <<"success", 2, 60>>, <<"failed", 1, 60>>,
    <<"success", UnknownCampaign, 10>> }

\* Deliveries take the messages in any order, so the topic is given in one order.
InputRank(in) ==
  IF in[4] = "u2" THEN 4 ELSE IF in[3] = 10 THEN 1 ELSE IF in[1] = "k1" THEN 2 ELSE 3

\* The payment service alone: the donation topic holds 1..MaxDonations events,
\* two workers, storage and broker errors, redelivery.
DonationEvent(i, in) ==
  [donationId |-> i, idempotencyKey |-> in[1], campaignId |-> in[2],
   userId |-> in[4], amount |-> in[3]]

InitPay ==
  /\ idempotencyCache = [k \in Keys |-> NoEntry]
  /\ now = 0
  /\ stamp = [k \in Keys |-> 0]
  /\ swept = Absent
  /\ startedAt = 0
  /\ reqs = <<>>
  /\ \E n \in 1..MaxDonations : \E f \in [1..n -> DonationInputs] :
        /\ \A i \in 1..(n - 1) : InputRank(f[i]) <= InputRank(f[i + 1])
        /\ donationTopic = [i \in 1..n |-> DonationEvent(i, f[i])]
        /\ dDeliveries = [i \in 1..n |-> 0]
        /\ nextDonation = n + 1
  /\ InitPayment(StartBalances)
  /\ InitAggregator
  /\ InitServing

NextPay == Payment \/ PaymentFaults \/ PaymentRedelivery

SpecPay == InitPay /\ [][NextPay]_vars

\* The campaign service alone: the payment topic holds 1..MaxPayments events.
PaymentRank(in) ==
  IF in[1] = "failed" THEN 4 ELSE IF in[2] = UnknownCampaign THEN 3 ELSE in[2]

PaymentInput(i, in) ==
  [run |-> <<i, 1>>, donationId |-> i, userId |-> "u1", campaignId |-> in[2],
   amount |-> in[3], status |-> in[1],
   reason |-> IF in[1] = "failed" THEN "Insufficient balance" ELSE "",
   previousBalance |-> IF in[1] = "failed" THEN Absent ELSE 100,
   newBalance |-> IF in[1] = "failed" THEN Absent ELSE 100 - in[3],
   currentBalance |-> IF in[1] = "failed" THEN 10 ELSE Absent,
   idempotencyKey |-> "k1"]

InitAgg ==
  /\ InitIntake
  /\ accounts = {"u1"}
  /\ startBalance = 100
  /\ balance = [u \in Users |-> IF u = "u1" THEN startBalance ELSE 0]
  /\ pw = [w \in Workers |-> Idle]
  /\ handled = {}
  /\ \E n \in 1..MaxPayments : \E f \in [1..n -> PaymentInputs] :
        /\ \A i \in 1..(n - 1) : PaymentRank(f[i]) <= PaymentRank(f[i + 1])
        /\ paymentTopic = {PaymentInput(i, f[i]) : i \in 1..n}
        /\ pDeliveries = [m \in {<<i, 1>> : i \in 1..n} |-> 0]
  /\ InitAggregator
  /\ InitServing

NextAgg == Aggregator \/ AggregatorFaults \/ AggregatorRedelivery

SpecAgg == InitAgg /\ [][NextAgg]_vars

\* Intake and payment for a client that retries in sequence (a request is
\* sent after the answer to the one before it), without storage or broker errors.
RetryInputs == { <<"k1", 1, 10, "u1">>, <<"k2", 1, 60, "u1">> }

Answered == \A r \in 1..Len(reqs) : reqs[r].pc = "done"

InitRetry == InitIntake /\ InitPayment(StartBalances) /\ InitAggregator /\ InitServing

NextRetry ==
  \/ Answered /\ Intake(RetryInputs, MaxRetries)
  \/ ~Answered /\ Intake({}, MaxRetries)
  \/ Payment
  \/ PaymentRedelivery

SpecRetry == InitRetry /\ [][NextRetry]_vars

\* The payment service with its two consumers: the registration event of
\* b@x.io was published, and after it the donations of the topic.
InitAccounts ==
  /\ idempotencyCache = [k \in Keys |-> NoEntry]
  /\ now = 0
  /\ stamp = [k \in Keys |-> 0]
  /\ swept = Absent
  /\ startedAt = 0
  /\ reqs = <<>>
  /\ \E n \in 1..MaxDonations : \E f \in [1..n -> DonationInputs] :
        /\ \A i \in 1..(n - 1) : InputRank(f[i]) <= InputRank(f[i + 1])
        /\ donationTopic = [i \in 1..n |-> DonationEvent(i, f[i])]
        /\ dDeliveries = [i \in 1..n |-> 0]
        /\ nextDonation = n + 1
  /\ InitPayment(StartBalances)
  /\ InitAggregator
  /\ InitEnv /\ InitReaders /\ InitBooted /\ InitLife(<<>>)
  /\ users = {"b@x.io"}
  /\ loginTopic = {"b@x.io"}
  /\ isConnected = TRUE
  /\ topicEnsured = TRUE
  /\ reg = RegIdle
  /\ issued = {}
  /\ tokenBlacklist = {}
  /\ revoked = [access |-> {}, refresh |-> {}]
  /\ clock = 0
  /\ resp = Resp("", NoToken, NoToken, 0, "")

LoginConsumer == \E m \in Emails : ProcessLoginEvent(m)

NextAccounts == Payment \/ LoginConsumer

SpecAccounts == InitAccounts /\ [][NextAccounts]_vars

\* Payment and aggregation of the donations on the topic, two workers, without
\* errors or redelivery.
NextSettle == Payment \/ Aggregator

SpecSettle == InitPay /\ [][NextSettle]_vars

\* Payment and aggregation with errors of the campaign ledger and of the cache
\* deletions, and no other error or redelivery.
NextLedger == Payment \/ Aggregator \/ AggregatorFaults

SpecLedger == InitPay /\ [][NextLedger]_vars

\* GET requests handled by the given readers, and key expiry.
Reads(readers) ==
  \/ \E r \in readers, k \in ReadKeys : GetCampaigns(r, k)
  \/ \E r \in readers : QueryCampaigns(r)
  \/ \E r \in readers : SetExCampaigns(r)
  \/ \E k \in CacheKeys : ExpireCache(k)

ReadFaults(readers) ==
  \/ \E r \in readers, k \in ReadKeys : GetCampaignsFail(r, k)
  \/ \E r \in readers : ReadFail(r)

\* The campaign service with one GET request at a time racing with the
\* payment consumer; storage and redis errors, key expiry.
NextRead == Aggregator \/ AggregatorFaults \/ Reads({"r1"}) \/ ReadFaults({"r1"})

SpecRead == InitAgg /\ [][NextRead]_vars

\* The campaign service with concurrent GET requests racing with the payment
\* consumer, without errors.
NextReadRace == Aggregator \/ Reads(Readers)

SpecReadRace == InitAgg /\ [][NextReadRace]_vars

\* The startup of the three consumers, the broker failing at will.
Boot ==
  \/ \E s \in Services : EnsureTopicsExistOk(s)
  \/ \E s \in Services : EnsureTopicsExistFail(s)
  \/ \E c \in Consumers : ListTopics(c)
  \/ \E c \in Consumers : CreateTopics(c)
  \/ \E c \in Consumers : EnsureTopicFail(c)
  \/ \E c \in Consumers : ConnectConsumer(c)
  \/ \E c \in Consumers : ConnectConsumerFail(c)
  \/ \E c \in Consumers : SubscribeOk(c)
  \/ \E c \in Consumers : SubscribeFail(c)

InitStart ==
  /\ InitIntake /\ InitPayment({100}) /\ InitAggregator /\ InitEnv /\ InitReaders
  /\ InitBoot /\ InitBackend({}) /\ InitLife(<<>>)

SpecBoot == InitStart /\ [][Boot]_vars

\* The topic-ensure steps of the campaign service, of the payment service and
\* of the backend producer on one broker, and the registrations that call the
\* producer.
NextTopics ==
  \/ EnsureTopicsExistOk("payment-service")
  \/ EnsureTopicsExistFail("payment-service")
  \/ ListTopics("payment")
  \/ CreateTopics("payment")
  \/ EnsureTopicFail("payment")
  \/ \E in \in RegisterInputs : Register(in[1], in[2])
  \/ \E in \in RegisterInputs : RegisterFail(in[1], in[2])
  \/ RegListTopics
  \/ RegCreateTopics
  \/ RegEnsureFail
  \/ RegConnect
  \/ RegSend
  \/ RegPublishFail

SpecTopics == InitStart /\ [][NextTopics]_vars

\* The sessions of one registered user.
Sessions ==
  \/ \E e \in Emails, ok \in BOOLEAN : Login(e, ok)
  \/ \E t \in TokenInputs : Refresh(t)
  \/ \E t \in TokenInputs, body \in BodyInputs : Logout(t, body)
  \/ \E t \in TokenInputs : Profile(t)
  \/ \E i \in Instants : Advance(i)

InitAuth ==
  /\ InitIntake /\ InitPayment({100}) /\ InitAggregator /\ InitEnv /\ InitReaders
  /\ InitBooted /\ InitBackend({"a@x.io"}) /\ InitLife(<<>>)

SpecAuth == InitAuth /\ [][Sessions]_vars

\* The five consumers at work on a message that is not JSON and a
\* well-formed one.
Consume ==
  \/ \E l \in Listeners : Fetch(l)
  \/ \E l \in Listeners : HandlerReturns(l)
  \/ \E l \in Listeners : HandlerThrows(l)

InitConsume ==
  /\ InitIntake /\ InitPayment({100}) /\ InitAggregator /\ InitEnv /\ InitReaders
  /\ InitBooted /\ InitBackend({}) /\ InitLife(<<"notJson", "wellFormed">>)

SpecConsume == InitConsume /\ [][Consume]_vars

\* The five consumers at work on one message while a signal arrives.
Shutdown ==
  \/ \E s \in Services, signal \in Signals : Signal(s, signal)
  \/ \E l \in Listeners : LeaveGroup(l)
  \/ \E l \in Listeners : DisconnectFail(l)
  \/ \E s \in Services : TrapDone(s)
  \/ \E s \in Services : TracingDone(s)

InitStop ==
  /\ InitIntake /\ InitPayment({100}) /\ InitAggregator /\ InitEnv /\ InitReaders
  /\ InitBooted /\ InitBackend({})
  /\ \E m \in MessageKinds : InitLife(<<m>>)

SpecStop == InitStop /\ [][Consume \/ Shutdown]_vars

\* The donation service with its clock and sweep, or with a crash of the
\* process.
StoreInputs == { <<"k1", 1, 10, "u1">>, <<"k2", 2, 60, "u1">> }

NextSweep ==
  \/ Intake(StoreInputs, MaxResubmissions)
  \/ \E t \in Hours : PassTime(t)
  \/ Sweep

SpecSweep == Init /\ [][NextSweep]_vars

NextCrash ==
  \/ Intake(StoreInputs, MaxResubmissions)
  \/ Crash

SpecCrash == Init /\ [][NextCrash]_vars

\* ================================================================ claims
RECURSIVE SumAmounts(_)
SumAmounts(S) ==
  IF S = {} THEN 0
  ELSE LET x == CHOOSE y \in S : TRUE IN x.amount + SumAmounts(S \ {x})

Accepted(r) == reqs[r].pc = "done" /\ reqs[r].response.status \in {200, 201}

SameRequest(r1, r2) ==
  /\ reqs[r1].key = reqs[r2].key
  /\ reqs[r1].campaignId = reqs[r2].campaignId
  /\ reqs[r1].amount = reqs[r2].amount

\* C1: two accepted submissions with the same idempotency key (and the same
\* fields) carry the same donation id, and each key has at most one
\* donation event on the topic.
C1_SameKeySameDonation ==
  /\ \A r1, r2 \in 1..Len(reqs) :
        (Accepted(r1) /\ Accepted(r2) /\ SameRequest(r1, r2))
          => reqs[r1].response.donation.donationId = reqs[r2].response.donation.donationId
  /\ \A k \in Keys :
        Cardinality({i \in 1..Len(donationTopic) : donationTopic[i].idempotencyKey = k}) <= 1

\* C2: once a response is stored under a key, no step replaces it by another.
C2_CachedResponseFixed ==
  [][\A k \in Keys :
       idempotencyCache[k] /= NoEntry => idempotencyCache'[k] = idempotencyCache[k]]_vars

\* C3: a submission whose key is in the store is answered at once with the
\* stored receipt (same donation, same success flag) marked replayed, nothing
\* is published and the store is unchanged.
C3_ReplayReturnsCachedReceipt ==
  [][(Len(reqs') = Len(reqs) + 1 /\ CacheHit(reqs'[Len(reqs')].key))
       => LET h == reqs'[Len(reqs')] IN
            /\ h.pc = "done"
            /\ h.response.replayed = TRUE
            /\ h.response.success = idempotencyCache[h.key].success
            /\ h.response.donation = idempotencyCache[h.key].donation
            /\ h.response.donation.donationId > 0
            /\ donationTopic' = donationTopic
            /\ nextDonation' = nextDonation
            /\ idempotencyCache' = idempotencyCache]_vars

C3_Witness ==
  \E r \in 1..Len(reqs) :
    /\ reqs[r].response.replayed
    /\ reqs[r].response.donation = idempotencyCache[reqs[r].key].donation

\* The retry scenario: balance 10, every request is (k1, campaign 1, 10),
\* each sent after the answer to the one before.
RetryScenario ==
  /\ startBalance = 10
  /\ Len(reqs) >= 1
  /\ \A r \in 1..Len(reqs) :
        reqs[r].key = "k1" /\ reqs[r].campaignId = 1 /\ reqs[r].amount = 10
  /\ Answered

PaymentQuiet ==
  /\ \A w \in Workers : pw[w].pc = "idle"
  /\ \A i \in 1..Len(donationTopic) : dDeliveries[i] >= 1

C5_BalanceNeverNegative == \A u \in accounts : balance[u] >= 0

\* a debit that passed the read check was refused when it came to commit
C5_Witness ==
  \E e \in paymentTopic :
    /\ e.status = "failed"
    /\ e.reason = "Insufficient balance"
    /\ e.currentBalance = Absent
    /\ balance[e.userId] < e.amount

\* C6: every success event satisfies previousBalance - amount = newBalance.
C6_Conservation ==
  \A e \in paymentTopic :
    e.status = "success" => e.previousBalance - e.amount = e.newBalance

\* C8: every finished run of processDonation has published exactly one
\* payment event.
C8_ExactlyOneOutcome == \A r \in handled : r.emitted = 1

\* C9: over all deliveries of one donation message, at most one run debits.
C9_RedeliveryDebitsOnce ==
  \A i \in 1..Len(donationTopic) :
    Cardinality({r \in handled : r.msg = i /\ r.debited}) <= 1

\* The race scenario: balance 100 and two donations of 60 by u1 under distinct
\* keys, each delivered once and both settled.
RaceScenario ==
  /\ startBalance = 100
  /\ Len(donationTopic) = 2
  /\ \A i \in 1..2 : donationTopic[i].userId = "u1" /\ donationTopic[i].amount = 60
  /\ donationTopic[1].idempotencyKey /= donationTopic[2].idempotencyKey
  /\ Cardinality(handled) = 2

Processed == {PaymentAt(r.msg) : r \in {x \in aggHandled : x.outcome /= "error"}}

\* C10: when the aggregator is idle and no event was delivered twice, each
\* campaign's total is its initial total plus the amounts of the processed
\* success events of that campaign (an event is processed when its run ended
\* without a storage error); failed events add nothing.
C10_TotalsAreSumOfSuccesses ==
  (ag.pc = "idle" /\ \A m \in DOMAIN pDeliveries : pDeliveries[m] <= 1) =>
    \A c \in Campaigns :
      total[c] = InitialTotal[c] +
                   SumAmounts({e \in Processed : e.status = "success" /\ e.campaignId = c})

C10_Witness ==
  /\ ag.pc = "idle"
  /\ \A m \in DOMAIN pDeliveries : pDeliveries[m] = 1
  /\ \E e \in Processed : e.status = "success" /\ e.campaignId \in Campaigns
  /\ \E e \in Processed : e.status = "failed"
  /\ \E c \in Campaigns : total[c] > InitialTotal[c]

\* a GET answered from the cache in this step
CacheHitStep(r) ==
  /\ rd[r].pc = "idle"
  /\ rd'[r].pc = "idle"
  /\ rd'[r].status = 200
  /\ rd'[r] /= rd[r]

\* C11: a read that is answered from the cache while no invalidation is
\* pending (the payment consumer is not between COMMIT and the end of
\* invalidateCache) returns the totals the ledger holds: never a value older
\* than the last committed update.
C11_ReadsNeverStale ==
  [][\A r \in Readers :
       (CacheHitStep(r) /\ ag.pc \notin {"delSingle", "delAll"})
         => rd'[r].body = RowsOf(rd'[r].key)]_vars

\* C12: after the COMMIT of an increment for campaign c the handler goes on
\* to invalidateCache; its first step deletes the entry of c and nothing
\* else, its second step deletes the all-campaigns entry and nothing else,
\* and unless a redis call rejects the handler finishes only after both; no
\* step of the handler writes a value into the cache.
C12_BothEntriesDeleted ==
  [][LET c == PaymentAt(ag.msg).campaignId IN
       /\ (ag.pc = "commit" /\ total' /= total) => ag'.pc = "delSingle"
       /\ (ag.pc = "delSingle" /\ ag'.pc = "delAll")
            => cache' = [cache EXCEPT ![c] = NoSnapshot]
       /\ (ag.pc \in {"delSingle", "delAll"} /\ ag'.pc = "idle" /\ faults' = faults)
            => /\ ag.pc = "delAll"
               /\ c \in ag.dels
               /\ cache' = [cache EXCEPT ![AllKey] = NoSnapshot]
       /\ (ag' /= ag) => \A k \in CacheKeys : cache'[k] \in {cache[k], NoSnapshot}]_vars

\* the entry of campaign 1 has been deleted and the all-campaigns entry,
\* still holding the total from before the increment, is deleted next
C12_Witness ==
  /\ ag.pc = "delAll"
  /\ ag.dels = {1}
  /\ cache[1] = NoSnapshot
  /\ cache[AllKey] /= NoSnapshot
  /\ cache[AllKey][1] < total[1]
  /\ faults = 0

\* C13: however often a success event is delivered, its amount is added to
\* the campaign's total at most once: no total exceeds the initial total
\* plus the amounts of the distinct success events of that campaign.
C13_DuplicateCountsOnce ==
  \A c \in Campaigns :
    total[c] <= InitialTotal[c] +
                  SumAmounts({e \in paymentTopic : e.status = "success" /\ e.campaignId = c})

\* C14: the handling of a success event that names a campaign without a
\* row ends in the step that finds no row: no total and no cache entry
\* changes, no process exits, and the consumer is idle again, ready for the
\* next payment event.
C14_UnknownCampaignIgnored ==
  [][(ag.pc = "update" /\ PaymentAt(ag.msg).campaignId \notin Campaigns /\ ag' /= ag)
       => /\ total' = total
          /\ cache' = cache
          /\ proc' = proc
          /\ ag' = AggIdle
          /\ \E x \in aggHandled' \ aggHandled :
                x.msg = ag.msg /\ x.outcome \in {"notfound", "error"}]_vars

\* an event for an unknown campaign was handled, the cache still holds an
\* entry, and the next event is being processed
C14_Witness ==
  /\ \E x \in aggHandled : x.outcome = "notfound"
  /\ ag.pc = "commit"
  /\ PaymentAt(ag.msg).campaignId \in Campaigns
  /\ \E k \in CacheKeys : cache[k] /= NoSnapshot

\* C15: every campaign total is non-negative, and no step lowers a total.
C15_TotalMonotonic ==
  /\ [](\A c \in Campaigns : total[c] >= 0)
  /\ [][\A c \in Campaigns : total'[c] >= total[c]]_vars

\* a failure event and two success deliveries have been handled, and a
\* total has grown twice
C15_Witness ==
  /\ ag.pc = "idle"
  /\ Cardinality(aggHandled) >= 2
  /\ \E c \in Campaigns : total[c] > InitialTotal[c] + 10

\* the request lacks the key or the campaign id, or its amount is missing
\* or is not a number greater than 0
InvalidRequest(r) ==
  \/ reqs[r].key = NoKey
  \/ reqs[r].campaignId = NoCampaign
  \/ reqs[r].amount = 0
  \/ ParseFloat(reqs[r].amount) = NaN
  \/ ParseFloat(reqs[r].amount) <= 0

LookupStep(w) ==
  /\ pw[w].pc = "idle"
  /\ pw'[w].pc /= "idle"
  /\ faults' = faults

\* worker w, about to publish a failure with the given reason from the try
\* block, moves in this step and its publish is not rejected
EarlyExitStep(w, reason) ==
  /\ pw[w].pc = "publish"
  /\ pw[w].reason = reason
  /\ pw'[w] /= pw[w]
  /\ faults' = faults

\* exactly the event e joins the payment topic, no balance changes and the
\* worker is idle again
EmitsOnly(w, e) ==
  /\ e \notin paymentTopic
  /\ paymentTopic' = paymentTopic \cup {e}
  /\ balance' = balance
  /\ pw'[w] = Idle

\* C17: a run whose lookup finds no account for the donor goes straight to
\* the publish of one failure event with reason 'User account not found',
\* has debited nothing, and returns after that publish.
C17_NoAccountFails ==
  [][\A w \in Workers :
       /\ (LookupStep(w) /\ donationTopic[pw'[w].msg].userId \notin accounts)
            => /\ pw'[w].pc = "publish"
               /\ pw'[w].reason = "User account not found"
               /\ ~pw'[w].debited
               /\ balance' = balance
       /\ EarlyExitStep(w, "User account not found")
            => /\ ~pw[w].debited
               /\ EmitsOnly(w, PaymentEvent(donationTopic[pw[w].msg],
                                            <<pw[w].msg, pw[w].delivery>>, "failed",
                                            "User account not found",
                                            Absent, Absent, Absent))]_vars

C17_Witness ==
  \E r \in handled :
    /\ donationTopic[r.msg].userId \notin accounts
    /\ r.emitted = 1
    /\ ~r.debited
    /\ \E e \in paymentTopic :
          /\ e.run = <<r.msg, r.delivery>>
          /\ e.status = "failed"
          /\ e.reason = "User account not found"
    /\ balance["u1"] = startBalance

\* C18: a run that reads a balance below the donation's amount goes straight
\* to the publish of one failure event with reason 'Insufficient balance'
\* and currentBalance the balance read, has debited nothing, and returns
\* after that publish.
C18_InsufficientBalanceFails ==
  [][\A w \in Workers :
       /\ (/\ LookupStep(w)
           /\ donationTopic[pw'[w].msg].userId \in accounts
           /\ balance[donationTopic[pw'[w].msg].userId] < donationTopic[pw'[w].msg].amount)
            => /\ pw'[w].pc = "publish"
               /\ pw'[w].reason = "Insufficient balance"
               /\ pw'[w].bal = balance[donationTopic[pw'[w].msg].userId]
               /\ ~pw'[w].debited
               /\ balance' = balance
       /\ EarlyExitStep(w, "Insufficient balance")
            => /\ ~pw[w].debited
               /\ EmitsOnly(w, PaymentEvent(donationTopic[pw[w].msg],
                                            <<pw[w].msg, pw[w].delivery>>, "failed",
                                            "Insufficient balance",
                                            Absent, Absent, pw[w].bal))]_vars

C18_Witness ==
  \E r \in handled :
    /\ r.emitted = 1
    /\ ~r.debited
    /\ \E e \in paymentTopic :
          /\ e.run = <<r.msg, r.delivery>>
          /\ e.status = "failed"
          /\ e.reason = "Insufficient balance"
          /\ e.currentBalance = startBalance
          /\ e.currentBalance < e.amount
    /\ balance["u1"] = startBalance

\* C19: a run whose balance lookup or debit was rejected by the storage ends
\* with the publish of a failure event whose reason is 'processing-error'.
C19_ProcessingErrorReason ==
  [][\A w \in Workers :
       (pw[w].pc = "catch" /\ pw[w].reason = "storage unavailable" /\ pw'[w] = Idle)
         => \E e \in paymentTopic' \ paymentTopic :
              e.status = "failed" /\ e.reason = "processing-error"]_vars

\* C20: when the last subscribe attempt of a consumer fails, the process of
\* its service is no longer running after that step.
C20_FailedSubscriptionExits ==
  [][\A c \in Consumers :
       (/\ Booting(c, "subscribe")
        /\ boot[c].attempt = maxRetries
        /\ boot'[c].pc /= "running"
        /\ (boot'[c] /= boot[c] \/ proc' /= proc))
         => proc'[ServiceOf(c)] /= "up"]_vars

\* C21: the topic-ensure step makes at most maxRetries attempts, and a
\* consumer whose topic-ensure step gave up is not connecting, subscribing or
\* consuming: its process has stopped.
C21_ExhaustedEnsureStops ==
  \A c \in Consumers :
    /\ boot[c].pc \in {"ensure", "create"} => boot[c].attempt \in 1..maxRetries
    /\ boot[c].ensured = "false" => proc[ServiceOf(c)] /= "up"

\* C22: a topic-ensure step that finds its topic on the broker, at the listing
\* or at the create call, and whose broker calls are not rejected, returns
\* success and leaves the set of topics as it was; a topic-ensure step that
\* has returned success has its topic on the broker.
C22_EnsureIdempotent ==
  /\ [](/\ \A c \in Consumers : boot[c].ensured = "true" => c \in topics
        /\ topicEnsured => "Login" \in topics)
  /\ [][\A c \in Consumers :
          (/\ Booting(c, "ensure") \/ Booting(c, "create")
           /\ c \in topics
           /\ boot'[c] /= boot[c]
           /\ boot'[c].err /= "unreachable")
            => (/\ boot'[c].ensured = "true"
                /\ boot'[c].created /= "true"
                /\ topics' = topics)]_vars
  /\ [][(/\ reg.pc \in {"list", "create"}
         /\ "Login" \in topics
         /\ reg' /= reg
         /\ reg'.err /= "unreachable")
          => (/\ topicEnsured'
              /\ reg'.err = ""
              /\ topics' = topics)]_vars

\* The campaign service listed the topics before the payment service created
\* them and called createTopics after: it resolved false, the step returned true.
C22_Witness ==
  /\ boot["payment"].pc = "connect"
  /\ boot["payment"].ensured = "true"
  /\ boot["payment"].created = "false"
  /\ proc["payment-service"] = "up"

\* C23: in each of the five consumers, a message being handled ends up
\* consumed with the consumer idle again and its process running, whether the
\* handler returned or threw; no consumer is stopped by a message, and every
\* consumed message that is not JSON has been logged.
C23_ThrowingHandlerKeepsConsuming ==
  /\ [](\A l \in Listeners :
          /\ life[l].pc /= "crashed"
          /\ proc[ServiceOf(l)] = "up"
          /\ \A i \in 1..life[l].offset :
               inbox[i] = "notJson" => i \in life[l].logged)
  /\ [][\A l \in Listeners :
          (life[l].pc = "handling" /\ life'[l] /= life[l])
            => (/\ life'[l].pc = "idle"
                /\ life'[l].offset = life[l].offset + 1
                /\ proc' = proc)]_vars

\* Every consumer has consumed both messages, the handler threw on both.
C23_Witness ==
  \A l \in Listeners :
    /\ life[l].offset = Len(inbox)
    /\ life[l].logged = {1, 2}
    /\ life[l].pc = "idle"
    /\ proc[ServiceOf(l)] = "up"

\* C24: a registration whose user row is inserted answers 201 with an access
\* and a refresh token and leaves the row in place, whatever the producer
\* does; when the event was not published the failure is in the log.
C24_RegistrationSurvivesPublishFailure ==
  [][(reg.pc \in {"list", "create", "connect", "send"} /\ reg'.pc = "done")
       => (/\ reg'.status = 201
           /\ reg'.accessToken = Token(reg.email, "access", clock)
           /\ reg'.refreshToken = Token(reg.email, "refresh", clock)
           /\ reg.email \in users'
           /\ reg.email \notin loginTopic'
                => "Failed to publish to Kafka" \in reg'.logged)]_vars

\* A registration answered 201 although the topic-ensure step and the publish
\* both failed.
C24_Witness ==
  /\ reg.pc = "done"
  /\ reg.status = 201
  /\ reg.email \in users
  /\ reg.email \notin loginTopic
  /\ reg.logged = {"Error ensuring Login topic exists", "Failed to publish to Kafka"}

\* C25: a process that has ended after a shutdown signal has no message in
\* flight and all its consumers have left their group.
C25_ExitsAfterLeavingGroup ==
  \A l \in Listeners :
    (sig[ServiceOf(l)] /= "none" /\ proc[ServiceOf(l)] /= "up")
      => (life[l].member = "left" /\ life[l].pc = "idle")

\* consumer.connect() of the consumer has resolved
Connected(c) == boot[c].pc \in {"subscribe", "running"}

\* The consume loop is entered only by a subscribe attempt that succeeds, and
\* a consumer that subscribes or consumes has its topic-ensure step behind it.
LoopAfterSubscribeAfterEnsure ==
  /\ [](\A c \in Consumers :
          boot[c].pc \in {"subscribe", "running"} => boot[c].ensured /= "pending")
  /\ [][\A c \in Consumers :
          (boot'[c].pc = "running" /\ boot[c].pc /= "running")
            => (boot[c].pc = "subscribe" /\ boot[c].attempt \in 1..maxRetries)]_vars

OnTopic(r) ==
  \E i \in 1..Len(donationTopic) : donationTopic[i] = reqs[r].donationData

\* r is the first submission with the key of q that the process started
\* after the crash has received, and carries the fields of q
NextRetryOf(q, r) ==
  /\ q <= startedAt /\ startedAt < r
  /\ SameRequest(q, r)
  /\ \A m \in (startedAt + 1)..(r - 1) : reqs[m].key /= reqs[q].key

\* C27: when a handler was lost in a crash after its event was published, the
\* first submission with its key after the restart is handled as a new
\* donation with another donation id, and once published there are two events
\* for the key.
C27_RetryAfterCrashPublishesAgain ==
  \A q, r \in 1..Len(reqs) :
    (reqs[q].pc = "lost-published" /\ OnTopic(q) /\ NextRetryOf(q, r))
      => (/\ reqs[r].donationData.donationId
                \notin {0, reqs[q].donationData.donationId}
          /\ reqs[r].donationData.idempotencyKey = reqs[q].key
          /\ ~reqs[r].response.replayed
          /\ reqs[r].pc \in {"published", "delay", "done"} => OnTopic(r))

\* The retry after the crash has published its own event.
C27_Witness ==
  \E q, r \in 1..Len(reqs) :
    /\ reqs[q].pc = "lost-published" /\ OnTopic(q) /\ NextRetryOf(q, r)
    /\ reqs[r].pc = "published" /\ OnTopic(r)
    /\ Len(donationTopic) = 2
    /\ donationTopic[1].idempotencyKey = donationTopic[2].idempotencyKey
    /\ donationTopic[1].donationId /= donationTopic[2].donationId

\* a sweep ran in this step
SweepStep == swept' /= swept

\* C28: a sweep removes the entries older than IDEMPOTENCY_TTL and no other,
\* keeps the remaining entries and their timestamps, and changes nothing
\* outside the store; a submission whose key has no entry in the store is
\* never answered from it, and a valid one becomes a new donation.
C28_SweepEvictsOnlyStale ==
  /\ [][SweepStep =>
          /\ \A k \in Keys :
               IF idempotencyCache[k] /= NoEntry /\ now - stamp[k] > IDEMPOTENCY_TTL
                 THEN idempotencyCache'[k] = NoEntry
                 ELSE /\ idempotencyCache'[k] = idempotencyCache[k]
                      /\ stamp'[k] = stamp[k]
          /\ UNCHANGED <<reqs, nextDonation, donationTopic, dDeliveries>>
          /\ UNCHANGED <<payVars, aggVars>>]_vars
  /\ [][\A k \in Keys :
          (/\ Len(reqs') = Len(reqs) + 1
           /\ reqs'[Len(reqs')].key = k
           /\ idempotencyCache[k] = NoEntry)
            => (/\ ~reqs'[Len(reqs')].response.replayed
                /\ <<k, reqs'[Len(reqs')].campaignId, reqs'[Len(reqs')].amount, "u1">>
                     \in StoreInputs
                     => (/\ reqs'[Len(reqs')].pc = "publishing"
                         /\ reqs'[Len(reqs')].donationData.donationId = nextDonation))]_vars

\* Two keys have been accepted and stored; a sweep has removed the entry of
\* the first, older than the window, and kept the entry of the second, which
\* is exactly IDEMPOTENCY_TTL old.
C28_Witness ==
  /\ Len(reqs) = 2
  /\ reqs[1].key /= reqs[2].key
  /\ reqs[1].pc = "done" /\ reqs[1].response.status = 201
  /\ idempotencyCache[reqs[1].key] = NoEntry
  /\ idempotencyCache[reqs[2].key] /= NoEntry
  /\ now - stamp[reqs[2].key] = IDEMPOTENCY_TTL
  /\ swept = now

\* a request to a protected route was answered in this step
Protected == {"profile", "logout"}

\* C29: once a logout with an access token has succeeded, authMiddleware
\* answers that token with 'Token revoked' in every later state, every
\* response of a protected route to it is the 401 'Token revoked', and no
\* login, refresh or logout takes a token out of the blacklist.
C29_RevokedAccessTokenRejected ==
  /\ [](\A t \in revoked.access : AuthMiddleware(t) = "Token revoked")
  /\ [][/\ tokenBlacklist \subseteq tokenBlacklist'
        /\ \A t \in revoked.access :
             (resp' /= resp /\ resp'.route \in Protected /\ resp'.token = t)
               => (resp'.status = 401 /\ resp'.error = "Token revoked")]_vars

\* A token was revoked by a logout, the user has logged in again later, the
\* revoked token has meanwhile expired, and the profile route answered it
\* with 'Token revoked'.
C29_Witness ==
  /\ resp.route = "profile"
  /\ resp.token \in revoked.access
  /\ resp.status = 401 /\ resp.error = "Token revoked"
  /\ Verify(resp.token, "access") = "TokenExpiredError"
  /\ \E t \in issued : t.type = "access" /\ t.iat > resp.token.iat

\* C30: a refresh token given in the body of a successful logout is refused
\* by POST /api/refresh with 401 'Refresh token revoked' in every later
\* state, and the refusal issues no token.
C30_RevokedRefreshTokenRefused ==
  /\ [](\A t \in revoked.refresh : RefreshRefusal(t) = "Refresh token revoked")
  /\ [][\A t \in revoked.refresh :
          (resp' /= resp /\ resp'.route = "refresh" /\ resp'.token = t)
            => (/\ resp'.status = 401
                /\ resp'.error = "Refresh token revoked"
                /\ issued' = issued)]_vars

\* A refresh token that had been exchanged for an access token was given to
\* a logout, and the next exchange was refused while the token was still
\* inside its lifetime.
C30_Witness ==
  /\ resp.route = "refresh"
  /\ resp.token \in revoked.refresh
  /\ resp.status = 401 /\ resp.error = "Refresh token revoked"
  /\ Verify(resp.token, "refresh") = "ok"
  /\ \E t \in issued : t.type = "access" /\ t.iat > resp.token.iat

\* the donation event that the run of payment event e was handling
CauseOf(e) == donationTopic[e.run[1]]

\* C31: every payment event carries the donationId, userId, campaignId,
\* amount and idempotencyKey of the donation event its run was handling,
\* whether its status is success or failed.
C31_PaymentEventCarriesDonation ==
  \A e \in paymentTopic :
    /\ e.donationId = CauseOf(e).donationId
    /\ e.userId = CauseOf(e).userId
    /\ e.campaignId = CauseOf(e).campaignId
    /\ e.amount = CauseOf(e).amount
    /\ e.idempotencyKey = CauseOf(e).idempotencyKey

\* A success event and the failure event of the catch block are on the topic,
\* for two donations that differ in key and amount.
C31_Witness ==
  \E e, f \in paymentTopic :
    /\ e.status = "success" /\ f.status = "failed"
    /\ f.reason \in {"storage unavailable", "broker unavailable"}
    /\ e.idempotencyKey /= f.idempotencyKey
    /\ e.amount /= f.amount

\* C32: a run of processDonation that has debited the account and has
\* published an event has published it with status success.
C32_DebitedNeverReportedFailed ==
  \A r \in handled :
    (r.debited /\ r.emitted = 1) => PaymentAt(<<r.msg, r.delivery>>).status = "success"

\* every donation and every payment event has been consumed and no handler
\* is running
Quiescent ==
  /\ \A i \in 1..Len(donationTopic) : dDeliveries[i] > 0
  /\ \A w \in Workers : pw[w] = Idle
  /\ \A m \in DOMAIN pDeliveries : pDeliveries[m] > 0
  /\ ag = AggIdle

Debited == SumAmounts({[user |-> u, amount |-> startBalance - balance[u]] : u \in accounts})
Raised == SumAmounts({[campaign |-> c, amount |-> total[c] - InitialTotal[c]] : c \in Campaigns})

\* C33: in every quiescent state the amount debited from the accounts equals
\* the amount added to the campaign totals, also after an error of the
\* campaign ledger or of a cache deletion.
C33_DebitsEqualTotals == Quiescent => Debited = Raised

\* C34: no payment event of a user whose registration event is on the
\* 'Login' topic has the reason 'User account not found'.
C34_RegisteredNeverNotFound ==
  \A e \in paymentTopic :
    e.userId \in RegisteredUsers => e.reason /= "User account not found"

\* handler r was answered 500 after its publish was rejected
PublishFailedAt(r) == reqs[r].pc = "done" /\ reqs[r].response.status = 500

\* a handler has written an entry for key k
Stored(k) ==
  \E m \in 1..Len(reqs) :
    /\ reqs[m].key = k
    /\ reqs[m].pc = "delay" \/ (reqs[m].pc = "done" /\ reqs[m].response.status = 201)

\* C35: the step in which the publish of a handler is rejected answers 500
\* and leaves the store and the topic as they were; the handler is finished
\* and its donation is never in the store; and while no other handler has
\* stored the key, the next submission of the same request is not a replay
\* and is a new donation about to be published.
C35_PublishFailureLeavesKeyFree ==
  /\ [](\A r \in 1..Len(reqs) :
          PublishFailedAt(r) =>
            /\ reqs[r].response = Response(500, FALSE, "Internal server error",
                                           NoDonation, FALSE)
            /\ idempotencyCache[reqs[r].key].donation.donationId
                 /= reqs[r].donationData.donationId
            /\ ~Stored(reqs[r].key) => idempotencyCache[reqs[r].key] = NoEntry)
  /\ [][/\ \A r \in 1..Len(reqs) :
             (reqs[r].pc = "publishing" /\ reqs'[r].response.status = 500)
               => (/\ reqs'[r].pc = "done"
                   /\ UNCHANGED <<idempotencyCache, donationTopic, nextDonation>>)
        /\ \A r \in 1..Len(reqs) :
             (/\ PublishFailedAt(r)
              /\ ~Stored(reqs[r].key)
              /\ Len(reqs') = Len(reqs) + 1
              /\ reqs'[Len(reqs')].key = reqs[r].key
              /\ reqs'[Len(reqs')].campaignId = reqs[r].campaignId
              /\ reqs'[Len(reqs')].amount = reqs[r].amount)
               => (/\ ~reqs'[Len(reqs')].response.replayed
                   /\ reqs'[Len(reqs')].pc = "publishing"
                   /\ reqs'[Len(reqs')].donationData.donationId = nextDonation
                   /\ nextDonation > reqs[r].donationData.donationId)]_vars

\* The publish of the first request was rejected and answered 500; the same
\* request was sent again, published as a new donation and answered 201.
C35_Witness ==
  /\ Len(reqs) >= 2
  /\ PublishFailedAt(1)
  /\ SameRequest(1, 2)
  /\ reqs[2].pc = "done" /\ reqs[2].response.status = 201
  /\ reqs[2].donationData.donationId /= reqs[1].donationData.donationId
  /\ Len(donationTopic) = 1
  /\ donationTopic[1] = reqs[2].donationData
  /\ idempotencyCache[reqs[1].key] = SuccessResponse(reqs[2].donationData)

\* C36: a submission whose key has an entry in the store is answered in the
\* step that receives it with the stored donation (its id, campaign and
\* amount, not those of the request), whatever campaignId and amount the
\* request carries: no validation error is given, and nothing is published.
C36_StoredKeyBeatsValidation ==
  [][\A k \in Keys :
       (/\ Len(reqs') = Len(reqs) + 1
        /\ reqs'[Len(reqs')].key = k
        /\ idempotencyCache[k] /= NoEntry)
         => (/\ reqs'[Len(reqs')].pc = "done"
             /\ reqs'[Len(reqs')].response.status = 200
             /\ reqs'[Len(reqs')].response.donation = idempotencyCache[k].donation
             /\ reqs'[Len(reqs')].response.success = idempotencyCache[k].success
             /\ UNCHANGED <<idempotencyCache, donationTopic, nextDonation>>)]_vars

\* A donation to campaign 1 of amount 10 is stored under k1; a request with
\* k1 for another campaign and amount, and one with k1 and no campaignId, were
\* both answered with the stored donation.
C36_Witness ==
  /\ Len(reqs) = 3
  /\ \A r \in 1..3 : reqs[r].key = "k1" /\ reqs[r].pc = "done"
  /\ reqs[1].response.status = 201
  /\ reqs[2].campaignId /= reqs[1].campaignId /\ reqs[2].amount /= reqs[1].amount
  /\ reqs[3].campaignId = NoCampaign
  /\ \A r \in 2..3 : /\ reqs[r].response.status = 200
                     /\ reqs[r].response.donation = reqs[1].response.donation

\* C37: a step of the payment handler that is not at one of the two
\* deletions leaves the cache as it is; the handler arrives at the first
\* deletion only by the COMMIT that adds the amount to the total; and a run
\* that ends at the UPDATE or at the COMMIT (no row, or an error and
\* ROLLBACK) has changed neither the total nor the cache.
C37_DeletionOnlyAfterCommit ==
  [][(ag' /= ag) =>
       /\ (ag.pc \notin {"delSingle", "delAll"}) => (cache' = cache /\ ag'.dels = {})
       /\ (ag'.pc = "delSingle") =>
             /\ ag.pc = "commit"
             /\ total' = [total EXCEPT ![PaymentAt(ag.msg).campaignId] =
                                         @ + PaymentAt(ag.msg).amount]
       /\ (ag.pc \in {"update", "commit"} /\ ag'.pc = "idle") =>
             (total' = total /\ cache' = cache)]_vars

\* The run of one event was rolled back while the cache held entries, which
\* it still holds; the increment of the next event has committed and its
\* first deletion is about to happen.
C37_Witness ==
  /\ \E x \in aggHandled : x.outcome = "error"
  /\ ag.pc = "delSingle"
  /\ cache[PaymentAt(ag.msg).campaignId] /= NoSnapshot
  /\ cache[AllKey] /= NoSnapshot
  /\ total[PaymentAt(ag.msg).campaignId] > InitialTotal[PaymentAt(ag.msg).campaignId]

\* C38: when a deletion of a cache entry is rejected, the total keeps the
\* committed increment and no process exits; after a rejected first deletion
\* the handler goes on to the second, and after a rejected second deletion
\* it finishes as after a successful one.
C38_FailedDeletionSwallowed ==
  [][(ag.pc \in {"delSingle", "delAll"} /\ ag' /= ag /\ faults' /= faults) =>
       /\ total' = total
       /\ proc' = proc
       /\ (ag.pc = "delSingle") => ag'.pc = "delAll"
       /\ (ag.pc = "delAll") =>
             /\ ag' = AggIdle
             /\ AggRun(ag.msg, ag.delivery, "updated") \in aggHandled']_vars

\* C39: as long as the topic-ensure step of the backend producer has not
\* succeeded, every call of publishUserRegistration begins with it.
C39_EnsureRetriedUntilSuccess ==
  [][(reg.pc \in {"idle", "done"} /\ reg'.pc \notin {"idle", "done"} /\ ~topicEnsured)
       => reg'.pc = "list"]_vars

====
